---- MODULE Spec2Model ----
(***************************************************************************)
(* The multi-alarm software timer of Clock_On_STM32F407                    *)
(* (BaseDrive/Timer.c, BaseDrive/Timer.h): a fixed-capacity array          *)
(* alarm_queue kept sorted by remain_time, a size counter queue_size and   *)
(* an id allocator next_id, driven by Alarm_Add, Alarm_Delete and          *)
(* AlarmTimer_Process; and the main loop of User/main.c, which calls       *)
(* AlarmTimer_Process and keeps the wall clock when it finds the flag set  *)
(* that the TIM10 interrupt handler of User/stm32f4xx_it.c raises.         *)
(*                                                                         *)
(* The C functions are operators over a memory record                      *)
(*   [alarm_queue, queue_size, next_id, ...]                               *)
(* and return the memory they leave behind (and their return value); the   *)
(* actions apply them to the variables.  Fields and variables whose names  *)
(* are listed under "history" are not read by any modelled code: they only *)
(* record what happened, so that properties can speak about it.            *)
(***************************************************************************)
EXTENDS Integers, Sequences, FiniteSets, TLC

(***************************************************************************)
(* Program constants (Timer.h).                                            *)
(***************************************************************************)
MAX_ALARM_NUM == 9
TIME_SLICE_MS == 10
\* The count at which the main loop resets timer_1s_accumulator and advances
\* the wall clock (main.c, a literal).
AccumulatorLimit == 76
\* The size of ReceiveBuffer, and the value of Uart3.Time at which
\* SysTick_Handler declares a reception finished.
RX_BUF_SIZE == 300
RX_TIMEOUT  == 10

ALARM_ONCE    == "ALARM_ONCE"
ALARM_REPEAT  == "ALARM_REPEAT"
ALARM_INVALID == "ALARM_INVALID"
ALARM_VALID   == "ALARM_VALID"
NULL          == "NULL"

(***************************************************************************)
(* Bounds of the model.                                                    *)
(***************************************************************************)
\* Spec: successful registrations, AlarmTimer_Process calls, successful
\* cancellations, longest duration in ticks.
MaxRegs      == 3
MaxTicks     == 2
MaxDels      == 1
MaxDurTicks  == 2
\* SpecFill: registrations after the first MAX_ALARM_NUM, ticks, cancellations.
MaxExtraRegs == 2
MaxFillTicks == 1
MaxFillDels  == 1
\* SpecSolo: registrations, AlarmTimer_Process calls, cancellations, longest
\* duration in ticks.
MaxSoloRegs  == 2
MaxSoloTicks == 10
MaxSoloDels  == 1
MaxSoloDur   == 5
\* SpecAnyQueue: records in the queue AlarmTimer_Process is handed, largest
\* remain_time and duration among them, AlarmTimer_Process calls.
MaxAnyRecs   == 2
MaxAnyRemain == 3
MaxAnyTicks  == 3
\* SpecMain, SpecPolled: firings of the TIM10 interrupt, firings that may be
\* ahead of the AlarmTimer_Process calls made (beyond the first), clock
\* settings by a received message.
MaxIrqs      == 80
MaxBehind    == 1
MaxSyncs     == 1
\* SpecClock: firings of the TIM10 interrupt (three seconds' worth and two).
MaxClockIrqs == 230
\* SpecUart: bytes arriving, SysTick firings, weather_parse calls, and the
\* value at which the count of SysTick firings since the last byte stays.
MaxBytes     == 3
MaxSysTicks  == 21
MaxParses    == 2
MaxQuiet     == 11
\* SpecTicking: registrations, longest duration in ticks, and the value at
\* which the history counters stay.
MaxLiveRegs  == 3
MaxLiveDur   == 2
MaxLiveHist  == 2
\* SpecCallbacks: registrations by the application, AlarmTimer_Process
\* calls, cancellations by the application, longest duration in ticks.
MaxCbRegs    == 2
MaxCbTicks   == 2
MaxCbDels    == 1
MaxCbDur     == 1

Slots == 0 .. (MAX_ALARM_NUM - 1)
Modes == {ALARM_ONCE, ALARM_REPEAT}
\* Plain callbacks: they do not touch the timer module (Alarm0_Callback,
\* Alarm1_Callback of main.c send a string / blink a LED).
Callbacks == {"Alarm0_Callback"}
\* duration_ms arguments: two below the time slice, the time slice itself, and
\* for 2 .. MaxDurTicks ticks a value that is no multiple of the time slice
\* (21 ms, 32 ms, ...), which the division rounds down.
DurationsMs ==
    {0, TIME_SLICE_MS - 1}
        \cup {k * TIME_SLICE_MS + (k - 1) : k \in 1 .. MaxDurTicks}
\* alarm_id arguments: 0, every id the allocator can return, and one beyond.
AlarmIds == 0 .. (MAX_ALARM_NUM + 1)
\* With at most MaxRegs registrations the allocator stays within 1 .. MaxRegs.
FewAlarmIds == 0 .. (MaxRegs + 1)

Min(S) == CHOOSE x \in S : \A y \in S : x <= y

(***************************************************************************)
(* Fixed-width unsigned arithmetic.  A uint32_t is kept as the integer     *)
(* with the same 32 bits read as two's complement (0 .. 2^31-1 stand for   *)
(* themselves, -1 stands for 2^32-1, ...), which is a bijection; the       *)
(* operators below are the unsigned operations on that representation.     *)
(***************************************************************************)
\* x-- on a uint32_t: 0 wraps to 2^32-1 (kept as -1); 2^31 (kept as -2^31)
\* steps down to 2^31-1.
U32Dec(x) == IF x = -2147483647 - 1 THEN 2147483647 ELSE x - 1
\* a < b on uint32_t.
U32Less(a, b) == IF (a >= 0) = (b >= 0) THEN a < b ELSE a >= 0
\* x++ and x-- on a uint8_t.
U8Inc(x) == (x + 1) % 256
U8Dec(x) == (x - 1) % 256

(***************************************************************************)
(* AlarmNode_T, with the history fields reg (serial number of the          *)
(* registration that created the record), ins (serial number of the        *)
(* InsertAlarm call that last placed it), born (number of                  *)
(* AlarmTimer_Process calls made before it was registered) and nfired      *)
(* (number of times its callback has been invoked).                        *)
(***************************************************************************)
ZeroNode ==
    [remain_time |-> 0, duration |-> 0, mode |-> ALARM_ONCE,
     state |-> ALARM_INVALID, cb |-> NULL, id |-> 0,
     reg |-> 0, ins |-> 0, born |-> 0, nfired |-> 0]

VARIABLES
    alarm_queue,   \* AlarmNode_T alarm_queue[MAX_ALARM_NUM]
    queue_size,    \* uint8_t queue_size
    next_id,       \* uint8_t next_id
    op,            \* history: the last call made and its arguments
    ret,           \* history: the value that call returned
    fired,         \* history: the records whose callback that call invoked
    effect,        \* history: whether that call changed the three above
    nreg,          \* history: successful Alarm_Add calls so far
    nins,          \* history: successful InsertAlarm calls so far
    ndel,          \* history: successful Alarm_Delete calls so far
    ticks,         \* history: AlarmTimer_Process calls so far
    Update_Flag,           \* volatile u8 Update_Flag
    timer_1s_accumulator,  \* u16 timer_1s_accumulator (a local of main)
    g_real_time,           \* RealTime g_real_time
    pc,            \* where main() is in its loop
    seen,          \* history: what the last test of Update_Flag found
    polled,        \* history: Update_Flag was tested since the last interrupt
    nirq,          \* history: TIM10 interrupts so far
    nobs,          \* history: tests that found Update_Flag set so far
    ninc,          \* history: timer_1s_accumulator++ executions so far
    nsync,         \* history: clock settings by a received message so far
    tim10,         \* the time base of TIM10
    last_second,   \* the static last_second of Alarm_CheckAndTrigger
    nadv,          \* history: g_real_time.second++ executions so far
    nchk,          \* history: Alarm_CheckAndTrigger calls so far
    rung,          \* history: the entries of g_alarm_list whose callback the
                   \* last step invoked, in order
    Uart3,         \* RXlenth, Time and ReceiveFinish of Uart3
    Rxbuf,         \* ReceiveBuffer, which Uart3.Rxbuf points to
    rx_lt,         \* main(): what the test Uart3.RXlenth < 300 found, and
    rx_len,        \*         the RXlenth it read
    heard,         \* history: a byte has arrived, and main() has written none
                   \* of its three resets since the last one did
    quiet,         \* history: SysTick firings since the last byte arrived
                   \* (it stays at MaxQuiet)
    rx_reset,      \* history: "begun" from the first reset write of main()
                   \* to the last, "done" after the last, "none" once a byte
                   \* has arrived since
    nrx,           \* history: bytes arrived so far
    nsys,          \* history: SysTick firings so far
    nparse,        \* history: weather_parse calls so far
    fresh,         \* history: bytes stored since the last weather_parse call
    handed,        \* history: <<>>, or <<r>> with r what the last step handed
                   \* to weather_parse
    wrote          \* history: the indices of Rxbuf the last step wrote to

clockVars == <<tim10, last_second, nadv, nchk, rung>>

uartVars ==
    <<Uart3, Rxbuf, rx_lt, rx_len, heard, quiet, rx_reset, nrx, nsys, nparse,
      fresh, handed, wrote>>

mainVars ==
    <<Update_Flag, timer_1s_accumulator, g_real_time, pc, seen, polled,
      nirq, nobs, ninc, nsync, clockVars, uartVars>>

vars ==
    <<alarm_queue, queue_size, next_id, op, ret, fired, effect, nreg, nins, ndel, ticks,
      Update_Flag, timer_1s_accumulator, g_real_time, pc, seen, polled,
      nirq, nobs, ninc, nsync, clockVars, uartVars>>

\* The memory the C functions work on.
Mem ==
    [alarm_queue |-> alarm_queue, queue_size |-> queue_size, next_id |-> next_id,
     nreg |-> nreg, nins |-> nins, ticks |-> ticks, calls |-> <<>>]

(***************************************************************************)
(* void TIM10_TimeSliceInit(void)                                          *)
(* The time base it hands to TIM_TimeBaseInit.  TIM10 raises its update    *)
(* interrupt once every (TIM_Prescaler + 1) * (TIM_Period + 1) cycles of   *)
(* its input clock, which the driver takes to be 84 MHz.                   *)
(***************************************************************************)
TIM10_CLK == 84000000

TIM10_TimeSliceInit == [TIM_Prescaler |-> 7999, TIM_Period |-> 10499]

\* Update interrupts per second of the time base tb, and what the two
\* divisions leave over.
TIM10_UpdateHz(tb) ==
    (TIM10_CLK \div (tb.TIM_Prescaler + 1)) \div (tb.TIM_Period + 1)
TIM10_UpdateRemainder(tb) ==
    <<TIM10_CLK % (tb.TIM_Prescaler + 1),
      (TIM10_CLK \div (tb.TIM_Prescaler + 1)) % (tb.TIM_Period + 1)>>

\* What main() has set up outside the alarm module when its loop starts:
\* the time base of TIM10, and the static of Alarm_CheckAndTrigger.
InitClockVars ==
    /\ tim10 = TIM10_TimeSliceInit
    /\ last_second = 255
    /\ nadv = 0
    /\ nchk = 0
    /\ rung = <<>>

(***************************************************************************)
(* The reception of USART3 (BaseDrive/USART.c, User/stm32f4xx_it.c).       *)
(* USARTDATA is declared in a header that is not part of the sources       *)
(* here; its fields RXlenth and Time are taken to be wide enough for the   *)
(* values the code compares them with (300 and 10).                        *)
(***************************************************************************)
RxIndexes == 0 .. (RX_BUF_SIZE - 1)

\* The k-th byte to arrive; never 0, which is the terminator main() writes.
ByteNo(k) == ((k - 1) % 255) + 1

\* Uart3 and ReceiveBuffer after UART3_Configuration(), and after the first
\* n bytes have arrived since, with no SysTick firing after the last of them.
UartAfter(n) ==
    [Uart3 |-> [RXlenth |-> n, Time |-> 0, ReceiveFinish |-> 0],
     Rxbuf |-> [i \in RxIndexes |-> IF i < n THEN ByteNo(i + 1) ELSE 0]]

\* Uart3 when main() enters its loop and no byte has arrived.
InitUartVars ==
    /\ Uart3 = UartAfter(0).Uart3
    /\ Rxbuf = UartAfter(0).Rxbuf
    /\ rx_lt = FALSE
    /\ rx_len = 0
    /\ heard = FALSE
    /\ quiet = MaxQuiet
    /\ rx_reset = "none"
    /\ nrx = 0
    /\ nsys = 0
    /\ nparse = 0
    /\ fresh = 0
    /\ handed = <<>>
    /\ wrote = <<>>

(***************************************************************************)
(* void AlarmManager_Init(void)                                            *)
(* alarm_queue has static storage, so the fields the loop does not write   *)
(* (remain_time, duration, mode) are zero when main() calls it.            *)
(***************************************************************************)
AlarmManager_Init ==
    [alarm_queue |-> [i \in Slots |-> ZeroNode], queue_size |-> 0, next_id |-> 1]

(***************************************************************************)
(* static uint8_t GetValidID(void)                                         *)
(* The inner loop looks at all MAX_ALARM_NUM slots, not only at the first  *)
(* queue_size of them.                                                     *)
(***************************************************************************)
\* A faulty IdUsed: the inner loop stops after slot 0.
IdUsedFirstSlotOnly(m, i) ==
    m.alarm_queue[0].state = ALARM_VALID /\ m.alarm_queue[0].id = i

IdUsed(m, i) ==
    \E j \in Slots :
        m.alarm_queue[j].state = ALARM_VALID /\ m.alarm_queue[j].id = i

GetValidID(m) ==
    LET unused == {i \in 1 .. MAX_ALARM_NUM : ~IdUsed(m, i)}
    IN  IF unused # {}
        THEN [id |-> Min(unused), mem |-> m]
        ELSE IF m.next_id <= MAX_ALARM_NUM
             THEN [id |-> m.next_id,
                   mem |-> [m EXCEPT !.next_id = U8Inc(m.next_id)]]
             ELSE [id |-> 0, mem |-> m]

(***************************************************************************)
(* static uint8_t InsertAlarm(AlarmNode_T new_alarm)                       *)
(***************************************************************************)
\* A faulty InsertPos: the scan is skipped and the record is appended.
InsertPosAtEnd(m, new_alarm) == m.queue_size

\* A faulty InsertPos: the scan compares with <= instead of <.
InsertPosNotStrict(m, new_alarm) ==
    LET later == {i \in Slots :
                     /\ i < m.queue_size
                     /\ ~U32Less(m.alarm_queue[i].remain_time, new_alarm.remain_time)}
    IN  IF later = {} THEN m.queue_size ELSE Min(later)

\* The first loop: the first i < queue_size with
\* new_alarm.remain_time < alarm_queue[i].remain_time, else queue_size.
InsertPos(m, new_alarm) ==
    LET later == {i \in Slots :
                     /\ i < m.queue_size
                     /\ U32Less(new_alarm.remain_time, m.alarm_queue[i].remain_time)}
    IN  IF later = {} THEN m.queue_size ELSE Min(later)

\* A faulty InsertAlarm: the loop that moves the records from insert_pos on
\* one up is missing, so the new record overwrites the one at insert_pos.
InsertAlarmNoShift(m, new_alarm) ==
    IF m.queue_size >= MAX_ALARM_NUM
    THEN [ok |-> 0, mem |-> m]
    ELSE LET insert_pos == InsertPos(m, new_alarm)
             placed     == [new_alarm EXCEPT !.ins = m.nins + 1]
         IN  [ok  |-> 1,
              mem |-> [m EXCEPT
                  !.alarm_queue[insert_pos] = placed,
                  !.queue_size = U8Inc(m.queue_size),
                  !.nins = m.nins + 1]]

InsertAlarm(m, new_alarm) ==
    IF m.queue_size >= MAX_ALARM_NUM
    THEN [ok |-> 0, mem |-> m]
    ELSE LET insert_pos == InsertPos(m, new_alarm)
             placed     == [new_alarm EXCEPT !.ins = m.nins + 1]
         IN  [ok  |-> 1,
              mem |-> [m EXCEPT
                  \* the second loop moves [insert_pos, queue_size) one up
                  !.alarm_queue =
                      [i \in Slots |->
                          IF i = insert_pos THEN placed
                          ELSE IF i > insert_pos /\ i <= m.queue_size
                               THEN m.alarm_queue[i - 1]
                               ELSE m.alarm_queue[i]],
                  !.queue_size = U8Inc(m.queue_size),
                  !.nins = m.nins + 1]]

(***************************************************************************)
(* uint8_t Alarm_Add(uint32_t duration_ms, AlarmMode mode, AlarmCallback cb)*)
(***************************************************************************)
\* A faulty NewAlarm: remain_time starts one below duration.
NewAlarmOneShort(m, new_id, duration_ms, mode, cb) ==
    [remain_time |-> (duration_ms \div TIME_SLICE_MS) - 1,
     duration    |-> duration_ms \div TIME_SLICE_MS,
     mode        |-> mode,
     state       |-> ALARM_VALID,
     cb          |-> cb,
     id          |-> new_id,
     reg         |-> m.nreg + 1,
     ins         |-> 0,
     born        |-> m.ticks,
     nfired      |-> 0]

\* The record Alarm_Add builds (lines 152-158); reg and born are history.
NewAlarm(m, new_id, duration_ms, mode, cb) ==
    [remain_time |-> duration_ms \div TIME_SLICE_MS,
     duration    |-> duration_ms \div TIME_SLICE_MS,
     mode        |-> mode,
     state       |-> ALARM_VALID,
     cb          |-> cb,
     id          |-> new_id,
     reg         |-> m.nreg + 1,
     ins         |-> 0,
     born        |-> m.ticks,
     nfired      |-> 0]

\* A faulty AddRefused: the callback is not checked.
AddRefusedNullAllowed(m, duration_ms, cb) ==
    U32Less(duration_ms, TIME_SLICE_MS) \/ m.queue_size >= MAX_ALARM_NUM

\* The argument check of line 143.
AddRefused(m, duration_ms, cb) ==
    cb = NULL \/ U32Less(duration_ms, TIME_SLICE_MS) \/ m.queue_size >= MAX_ALARM_NUM

\* A faulty Alarm_Add: queue_size is not checked and the result of
\* InsertAlarm is ignored.
Alarm_AddUnchecked(m, duration_ms, mode, cb) ==
    IF cb = NULL \/ U32Less(duration_ms, TIME_SLICE_MS)
    THEN [ret |-> 0, mem |-> m]
    ELSE LET got == GetValidID(m)
         IN  IF got.id = 0
             THEN [ret |-> 0, mem |-> got.mem]
             ELSE LET put == InsertAlarm(got.mem,
                                         NewAlarm(m, got.id, duration_ms, mode, cb))
                  IN  [ret |-> got.id,
                       mem |-> [put.mem EXCEPT !.nreg = m.nreg + 1]]

Alarm_Add(m, duration_ms, mode, cb) ==
    IF AddRefused(m, duration_ms, cb)
    THEN [ret |-> 0, mem |-> m]
    ELSE LET got == GetValidID(m)
         IN  IF got.id = 0
             THEN [ret |-> 0, mem |-> got.mem]
             ELSE LET put == InsertAlarm(got.mem,
                                         NewAlarm(m, got.id, duration_ms, mode, cb))
                  IN  IF put.ok = 0
                      THEN [ret |-> 0, mem |-> put.mem]
                      ELSE [ret |-> got.id,
                            mem |-> [put.mem EXCEPT !.nreg = m.nreg + 1]]

(***************************************************************************)
(* uint8_t Alarm_Delete(uint8_t alarm_id)                                  *)
(***************************************************************************)
\* A faulty TargetPos: the search runs over all MAX_ALARM_NUM slots, as the
\* one of GetValidID does.
TargetPosAllSlots(m, alarm_id) ==
    LET hits == {i \in Slots :
                    /\ m.alarm_queue[i].state = ALARM_VALID
                    /\ m.alarm_queue[i].id = alarm_id}
    IN  IF hits = {} THEN MAX_ALARM_NUM ELSE Min(hits)

\* The search loop: the first i < queue_size holding alarm_id, else
\* MAX_ALARM_NUM.
TargetPos(m, alarm_id) ==
    LET hits == {i \in Slots :
                    /\ i < m.queue_size
                    /\ m.alarm_queue[i].state = ALARM_VALID
                    /\ m.alarm_queue[i].id = alarm_id}
    IN  IF hits = {} THEN MAX_ALARM_NUM ELSE Min(hits)

\* A faulty Alarm_Delete: the loop that moves the records after target_pos
\* down is missing.
Alarm_DeleteNoShift(m, alarm_id) ==
    IF alarm_id = 0 \/ m.queue_size = 0
    THEN [ret |-> 0, mem |-> m]
    ELSE LET target_pos == TargetPos(m, alarm_id)
             last       == U8Dec(m.queue_size)
         IN  IF target_pos = MAX_ALARM_NUM
             THEN [ret |-> 0, mem |-> m]
             ELSE [ret |-> 1,
                   mem |-> [m EXCEPT
                       !.alarm_queue[last] =
                           [m.alarm_queue[last] EXCEPT
                               !.state = ALARM_INVALID, !.id = 0, !.cb = NULL],
                       !.queue_size = last]]

Alarm_Delete(m, alarm_id) ==
    IF alarm_id = 0 \/ m.queue_size = 0
    THEN [ret |-> 0, mem |-> m]
    ELSE LET target_pos == TargetPos(m, alarm_id)
             last       == U8Dec(m.queue_size)
         IN  IF target_pos = MAX_ALARM_NUM
             THEN [ret |-> 0, mem |-> m]
             ELSE [ret |-> 1,
                   mem |-> [m EXCEPT
                       !.alarm_queue =
                           [i \in Slots |->
                               IF i = last
                               THEN [m.alarm_queue[i] EXCEPT
                                        !.state = ALARM_INVALID,
                                        !.id = 0,
                                        !.cb = NULL]
                               ELSE IF i >= target_pos /\ i < last
                                    THEN m.alarm_queue[i + 1]
                                    ELSE m.alarm_queue[i]],
                       !.queue_size = last]]

(***************************************************************************)
(* void AlarmTimer_Process(void)                                           *)
(***************************************************************************)
\* A callback that registers one-shot alarms of one tick until Alarm_Add
\* refuses.
RECURSIVE FillQueue(_)
FillQueue(m) ==
    LET r == Alarm_Add(m, TIME_SLICE_MS, ALARM_ONCE, "Alarm0_Callback")
    IN  IF r.ret = 0 THEN r.mem ELSE FillQueue(r.mem)

\* front_alarm->cb().  The callbacks of Callbacks return without touching the
\* timer module.  The others are callbacks an application may hand to
\* Alarm_Add (AlarmCallback is any void function): one cancels the alarm
\* being dispatched (the record at index 0 while it runs), one registers a
\* repeating alarm of one tick, one fills the queue.
InvokeCallback(m, cb) ==
    IF cb = "CancelSelf_Callback"
    THEN Alarm_Delete(m, m.alarm_queue[0].id).mem
    ELSE IF cb = "Register_Callback"
         THEN Alarm_Add(m, TIME_SLICE_MS, ALARM_REPEAT, "Alarm0_Callback").mem
         ELSE IF cb = "Fill_Callback"
              THEN FillQueue(m)
              ELSE m

\* A faulty RemoveFront: queue_size is decremented without the records behind
\* the head being moved down.
RemoveFrontNoShift(m) ==
    [m EXCEPT !.queue_size = U8Dec(m.queue_size)]

\* for (i = 0; i < queue_size - 1; i++) alarm_queue[i] = alarm_queue[i + 1];
\* queue_size--;
\* The slot at the old queue_size - 1 is not written: it keeps its record,
\* state ALARM_VALID included.
RemoveFront(m) ==
    [m EXCEPT
        !.alarm_queue =
            [i \in Slots |->
                IF i < m.queue_size - 1 /\ i + 1 \in Slots
                THEN m.alarm_queue[i + 1]
                ELSE m.alarm_queue[i]],
        !.queue_size = U8Dec(m.queue_size)]

\* A faulty Dispatch: a repeating alarm is inserted again before the fired
\* record is removed, which fails when the queue is full.
DispatchInsertFirst(m) ==
    LET front  == m.alarm_queue[0]
        logged == [m EXCEPT
                      !.alarm_queue[0].nfired = front.nfired + 1,
                      !.calls = Append(m.calls,
                                       [front EXCEPT !.nfired = front.nfired + 1])]
        called == IF front.cb # NULL THEN InvokeCallback(logged, front.cb) ELSE m
    IN  IF called.alarm_queue[0].mode = ALARM_REPEAT
        THEN LET reset == [called EXCEPT
                              !.alarm_queue[0].remain_time =
                                  called.alarm_queue[0].duration]
                 temp  == reset.alarm_queue[0]
             IN  RemoveFront(InsertAlarm(reset, temp).mem)
        ELSE RemoveFront(called)

\* A faulty Dispatch: a repeating alarm goes back into the queue without
\* remain_time being reset to duration.
DispatchNoReset(m) ==
    LET front  == m.alarm_queue[0]
        logged == [m EXCEPT
                      !.alarm_queue[0].nfired = front.nfired + 1,
                      !.calls = Append(m.calls,
                                       [front EXCEPT !.nfired = front.nfired + 1])]
        called == IF front.cb # NULL THEN InvokeCallback(logged, front.cb) ELSE m
    IN  IF called.alarm_queue[0].mode = ALARM_REPEAT
        THEN InsertAlarm(RemoveFront(called), called.alarm_queue[0]).mem
        ELSE RemoveFront(called)

\* The body of  if (front_alarm->remain_time == 0) { ... }  (lines 219-246);
\* front_alarm is &alarm_queue[0] throughout, so every read after the
\* callback reads slot 0 as the callback left it.
Dispatch(m) ==
    LET front  == m.alarm_queue[0]
        logged == [m EXCEPT
                      !.alarm_queue[0].nfired = front.nfired + 1,
                      !.calls = Append(m.calls,
                                       [front EXCEPT !.nfired = front.nfired + 1])]
        called == IF front.cb # NULL THEN InvokeCallback(logged, front.cb) ELSE m
    IN  IF called.alarm_queue[0].mode = ALARM_REPEAT
        THEN LET reset == [called EXCEPT
                              !.alarm_queue[0].remain_time =
                                  called.alarm_queue[0].duration]
                 temp  == reset.alarm_queue[0]
             IN  InsertAlarm(RemoveFront(reset), temp).mem
        ELSE RemoveFront(called)

\* A faulty AlarmTimer_Process: every record of the queue is decremented, not
\* only the head.
AlarmTimer_ProcessAll(m) ==
    IF m.queue_size > 0 /\ m.alarm_queue[0].state = ALARM_VALID
    THEN LET dec == [m EXCEPT
                        !.alarm_queue =
                            [i \in Slots |->
                                IF i < m.queue_size
                                THEN [m.alarm_queue[i] EXCEPT
                                         !.remain_time = U32Dec(@)]
                                ELSE m.alarm_queue[i]]]
         IN  IF dec.alarm_queue[0].remain_time = 0
             THEN Dispatch(dec)
             ELSE dec
    ELSE m

\* A faulty AlarmTimer_Process: remain_time is compared with 0 before it is
\* decremented instead of after.
AlarmTimer_ProcessTestFirst(m) ==
    IF m.queue_size > 0 /\ m.alarm_queue[0].state = ALARM_VALID
    THEN IF m.alarm_queue[0].remain_time = 0
         THEN Dispatch(m)
         ELSE [m EXCEPT
                  !.alarm_queue[0].remain_time =
                      U32Dec(m.alarm_queue[0].remain_time)]
    ELSE m

AlarmTimer_Process(m) ==
    IF m.queue_size > 0
    THEN IF m.alarm_queue[0].state = ALARM_VALID
         THEN LET dec == [m EXCEPT
                             !.alarm_queue[0].remain_time =
                                 U32Dec(m.alarm_queue[0].remain_time)]
              IN  IF dec.alarm_queue[0].remain_time = 0
                  THEN Dispatch(dec)
                  ELSE dec
         ELSE m
    ELSE m

(***************************************************************************)
(* The state machine: main() calls AlarmManager_Init once; afterwards the  *)
(* three entry points are called one at a time (all from the main loop).   *)
(***************************************************************************)
Init ==
    /\ alarm_queue = AlarmManager_Init.alarm_queue
    /\ queue_size = AlarmManager_Init.queue_size
    /\ next_id = AlarmManager_Init.next_id
    /\ op = [name |-> "AlarmManager_Init"]
    /\ ret = 0
    /\ fired = <<>>
    /\ effect = TRUE
    /\ nreg = 0
    /\ nins = 0
    /\ ndel = 0
    /\ ticks = 0
    \* main() is not running its loop: the entry points are called directly
    /\ Update_Flag = 0
    /\ timer_1s_accumulator = 0
    /\ g_real_time = [hour |-> 0, minute |-> 0, second |-> 0]
    /\ pc = "none"
    /\ seen = 0
    /\ polled = FALSE
    /\ nirq = 0
    /\ nobs = 0
    /\ ninc = 0
    /\ nsync = 0
    /\ InitClockVars
    /\ InitUartVars

\* The variables after a call that left memory m.
Store(m) ==
    /\ alarm_queue' = m.alarm_queue
    /\ queue_size' = m.queue_size
    /\ next_id' = m.next_id
    /\ nreg' = m.nreg
    /\ nins' = m.nins
    /\ fired' = m.calls
    /\ effect' = (<<m.alarm_queue, m.queue_size, m.next_id>>
                      # <<alarm_queue, queue_size, next_id>>)

AddCall(duration_ms, mode, cb) ==
    LET r == Alarm_Add(Mem, duration_ms, mode, cb)
    IN  /\ Store(r.mem)
        /\ op' = [name |-> "Alarm_Add", duration_ms |-> duration_ms,
                  mode |-> mode, cb |-> cb]
        /\ ret' = r.ret
        /\ UNCHANGED <<ndel, ticks>>

DeleteCall(alarm_id) ==
    LET r == Alarm_Delete(Mem, alarm_id)
    IN  /\ Store(r.mem)
        /\ op' = [name |-> "Alarm_Delete", alarm_id |-> alarm_id]
        /\ ret' = r.ret
        /\ ndel' = ndel + r.ret
        /\ UNCHANGED ticks

ProcessCall ==
    /\ Store(AlarmTimer_Process(Mem))
    /\ op' = [name |-> "AlarmTimer_Process"]
    /\ ret' = 0
    /\ ticks' = ticks + 1
    /\ UNCHANGED ndel

\* A run is followed up to and including its first call without effect (one
\* that left alarm_queue, queue_size and next_id as it found them): whatever
\* call comes after such a call finds the memory of before it, and is followed
\* from there.
Continue == effect

\* Any calls, with arguments from the small sets above.
Next ==
    \/ /\ Continue
       /\ nreg < MaxRegs
       /\ \E d \in DurationsMs, m \in Modes, c \in Callbacks \cup {NULL} :
              AddCall(d, m, c)
       /\ UNCHANGED mainVars
    \/ /\ Continue
       /\ ndel < MaxDels
       /\ \E id \in FewAlarmIds : DeleteCall(id)
       /\ UNCHANGED mainVars
    \/ /\ Continue
       /\ ticks < MaxTicks
       /\ ProcessCall
       /\ UNCHANGED mainVars

Spec == Init /\ [][Next]_vars

\* The capacity scenario: the first MAX_ALARM_NUM registrations are one-shot
\* alarms of 1, 2, ..., MAX_ALARM_NUM ticks, which fill the queue; then come
\* any calls, with any arguments.
FillDurationsMs ==
    IF nreg < MAX_ALARM_NUM THEN {TIME_SLICE_MS * (nreg + 1)} ELSE DurationsMs
FillModes == IF nreg < MAX_ALARM_NUM THEN {ALARM_ONCE} ELSE Modes
FillCallbacks == IF nreg < MAX_ALARM_NUM THEN Callbacks ELSE Callbacks \cup {NULL}

NextFill ==
    \/ /\ Continue
       /\ nreg < MAX_ALARM_NUM + MaxExtraRegs
       /\ \E d \in FillDurationsMs, m \in FillModes, c \in FillCallbacks :
              AddCall(d, m, c)
       /\ UNCHANGED mainVars
    \/ /\ Continue
       /\ nreg >= MAX_ALARM_NUM
       /\ ndel < MaxFillDels
       /\ \E id \in AlarmIds : DeleteCall(id)
       /\ UNCHANGED mainVars
    \/ /\ Continue
       /\ nreg >= MAX_ALARM_NUM
       /\ ticks < MaxFillTicks
       /\ ProcessCall
       /\ UNCHANGED mainVars

SpecFill == Init /\ [][NextFill]_vars

\* The single-alarm scenario: an alarm is registered only into an empty
\* queue, so that it is the only one in the queue for as long as it is there;
\* it is ticked, may be cancelled, and once it has left the queue another one
\* may be registered.
SoloDurationsMs == {k * TIME_SLICE_MS + (k - 1) : k \in 1 .. MaxSoloDur}

NextSolo ==
    \/ /\ Continue
       /\ queue_size = 0
       /\ nreg < MaxSoloRegs
       /\ \E d \in SoloDurationsMs, m \in Modes, c \in Callbacks :
              AddCall(d, m, c)
       /\ UNCHANGED mainVars
    \/ /\ Continue
       /\ queue_size = 1
       /\ ndel < MaxSoloDels
       /\ DeleteCall(alarm_queue[0].id)
       /\ UNCHANGED mainVars
    \/ /\ Continue
       /\ nreg > 0
       /\ ticks < MaxSoloTicks
       /\ ProcessCall
       /\ UNCHANGED mainVars

SpecSolo == Init /\ [][NextSolo]_vars

(***************************************************************************)
(* AlarmTimer_Process as a function of the queue it is handed.  The queue  *)
(* is any well-formed one (records 0 .. queue_size-1 ALARM_VALID with      *)
(* distinct ids and ascending remain_time, the other slots as              *)
(* AlarmManager_Init leaves them), with remain_time from 0 on: the test    *)
(* of Timer.c:210 and the decrement of Timer.c:216 look at queue_size and  *)
(* the state of the head only, whatever the remain_time.  The states with  *)
(* a remain_time of 0 are those that the calls of Spec do not produce.     *)
(***************************************************************************)
AnyNode(k, remain, mode) ==
    [remain_time |-> remain,
     duration    |-> MaxAnyRemain,
     mode        |-> mode,
     state       |-> ALARM_VALID,
     cb          |-> "Alarm0_Callback",
     id          |-> k + 1,
     reg         |-> k + 1,
     ins         |-> k + 1,
     born        |-> 0,
     nfired      |-> 0]

AnyQueues ==
    {[i \in Slots |-> IF i < n THEN AnyNode(i, rs[i], ms[i]) ELSE ZeroNode] :
        <<n, rs, ms>> \in
            {<<n, rs, ms>> \in (1 .. MaxAnyRecs)
                                  \X [0 .. (MaxAnyRecs - 1) -> 0 .. MaxAnyRemain]
                                  \X [0 .. (MaxAnyRecs - 1) -> Modes] :
                /\ \A i \in 0 .. (MaxAnyRecs - 2) : rs[i] <= rs[i + 1]
                /\ \A i \in n .. (MaxAnyRecs - 1) :
                       rs[i] = MaxAnyRemain /\ ms[i] = ALARM_ONCE}}

InitAnyQueue ==
    /\ alarm_queue \in AnyQueues
    /\ queue_size = Cardinality({i \in Slots : alarm_queue[i].state = ALARM_VALID})
    /\ next_id = AlarmManager_Init.next_id
    /\ op = [name |-> "AlarmManager_Init"]
    /\ ret = 0
    /\ fired = <<>>
    /\ effect = TRUE
    /\ nreg = queue_size
    /\ nins = queue_size
    /\ ndel = 0
    /\ ticks = 0
    /\ Update_Flag = 0
    /\ timer_1s_accumulator = 0
    /\ g_real_time = [hour |-> 0, minute |-> 0, second |-> 0]
    /\ pc = "none"
    /\ seen = 0
    /\ polled = FALSE
    /\ nirq = 0
    /\ nobs = 0
    /\ ninc = 0
    /\ nsync = 0
    /\ InitClockVars
    /\ InitUartVars

NextAnyQueue ==
    /\ ticks < MaxAnyTicks
    /\ ProcessCall
    /\ UNCHANGED mainVars

SpecAnyQueue == InitAnyQueue /\ [][NextAnyQueue]_vars

(***************************************************************************)
(* main() and the TIM10 interrupt (User/main.c, User/stm32f4xx_it.c).      *)
(* The interrupt handler and the pieces of the loop body are operators     *)
(* over the memory [timer, Update_Flag, timer_1s_accumulator, g_real_time],*)
(* timer being the memory of the alarm module.  The loop body is cut where *)
(* it reads or writes Update_Flag, the one variable it shares with the     *)
(* handler, and around timer_1s_accumulator++; the interrupt can come      *)
(* between any two pieces.  The display, the touch screen and the bytes of *)
(* the UART are left out; what is kept of the UART part is that a finished *)
(* reception may set the wall clock.                                       *)
(***************************************************************************)
U16Inc(x) == (x + 1) % 65536

MainMem ==
    [timer |-> Mem, Update_Flag |-> Update_Flag,
     timer_1s_accumulator |-> timer_1s_accumulator, g_real_time |-> g_real_time,
     last_second |-> last_second, nadv |-> nadv, nchk |-> nchk, rung |-> <<>>]

\* Timer.h declares Alarm_Register and main() calls it; Timer.c defines the
\* registration function under the name Alarm_Add, with the same parameter
\* types, and that is the function the call is taken to reach.
Alarm_Register(m, duration, mode, cb) == Alarm_Add(m, duration, mode, cb)

\* A faulty handler: it calls AlarmTimer_Process itself, as the header comment
\* of Timer.c has it.
TIM1_UP_TIM10_IRQHandlerProcesses(m) ==
    [m EXCEPT !.timer = AlarmTimer_Process(m.timer), !.Update_Flag = 1]

\* void TIM1_UP_TIM10_IRQHandler(void), entered for a TIM10 update.
TIM1_UP_TIM10_IRQHandler(m) == [m EXCEPT !.Update_Flag = 1]

\* A faulty MainClear: the flag is left set.
MainClearMissing(m) == m

\* Update_Flag = 0;
MainClear(m) == [m EXCEPT !.Update_Flag = 0]

\* A faulty MainAccumulate: it adds the milliseconds of a time slice.
MainAccumulateMs(m) ==
    [m EXCEPT !.timer_1s_accumulator = (@ + TIME_SLICE_MS) % 65536]

\* timer_1s_accumulator++;
MainAccumulate(m) ==
    [m EXCEPT !.timer_1s_accumulator = U16Inc(m.timer_1s_accumulator)]

\* A faulty AdvanceRealTime: the hour is wrapped when it exceeds 24.
AdvanceRealTimeLateWrap(t) ==
    LET second == U8Inc(t.second)
        minute == U8Inc(t.minute)
        hour   == U8Inc(t.hour)
    IN  IF second >= 60
        THEN IF minute >= 60
             THEN [hour |-> IF hour > 24 THEN 0 ELSE hour,
                   minute |-> 0, second |-> 0]
             ELSE [hour |-> t.hour, minute |-> minute, second |-> 0]
        ELSE [hour |-> t.hour, minute |-> t.minute, second |-> second]

\* g_real_time.second++; and the carries into minute and hour.
AdvanceRealTime(t) ==
    LET second == U8Inc(t.second)
        minute == U8Inc(t.minute)
        hour   == U8Inc(t.hour)
    IN  IF second >= 60
        THEN IF minute >= 60
             THEN [hour |-> IF hour >= 24 THEN 0 ELSE hour,
                   minute |-> 0, second |-> 0]
             ELSE [hour |-> t.hour, minute |-> minute, second |-> 0]
        ELSE [hour |-> t.hour, minute |-> t.minute, second |-> second]

\* g_alarm_list as its initialisers and the Alarm_Set calls of main() leave
\* it (both give the same values); entry 0 is a placeholder.
MAX_ALARM_CNT == 5

g_alarm_list ==
    [i \in 0 .. (MAX_ALARM_CNT - 1) |->
        CASE i = 0 -> [hour |-> 0,  minute |-> 0,  enable |-> 0, callback |-> NULL]
          [] i = 1 -> [hour |-> 7,  minute |-> 30, enable |-> 0, callback |-> "Alarm1_Callback"]
          [] i = 2 -> [hour |-> 0,  minute |-> 0,  enable |-> 1, callback |-> "Alarm1_Callback"]
          [] i = 3 -> [hour |-> 12, minute |-> 30, enable |-> 1, callback |-> "Alarm1_Callback"]
          [] i = 4 -> [hour |-> 18, minute |-> 0,  enable |-> 0, callback |-> "Alarm1_Callback"]]

\* The entries 1 .. MAX_ALARM_CNT-1 the loop of Alarm_CheckAndTrigger calls
\* at time t, in ascending order.
RECURSIVE Matching(_, _)
Matching(t, i) ==
    IF i >= MAX_ALARM_CNT
    THEN <<>>
    ELSE IF /\ g_alarm_list[i].enable # 0
            /\ g_alarm_list[i].hour = t.hour
            /\ g_alarm_list[i].minute = t.minute
            /\ g_alarm_list[i].callback # NULL
         THEN <<i>> \o Matching(t, i + 1)
         ELSE Matching(t, i + 1)

\* void Alarm_CheckAndTrigger(void)
Alarm_CheckAndTrigger(m) ==
    LET called == [m EXCEPT !.nchk = m.nchk + 1]
    IN  IF m.g_real_time.second = m.last_second
        THEN called
        ELSE [called EXCEPT
                 !.last_second = m.g_real_time.second,
                 !.rung = IF m.g_real_time.second = 0
                          THEN Matching(m.g_real_time, 1)
                          ELSE <<>>]

\* if (timer_1s_accumulator >= 76) { ... }: the accumulator is reset, the
\* clock advanced and Alarm_CheckAndTrigger called.
MainSecond(m) ==
    IF m.timer_1s_accumulator >= AccumulatorLimit
    THEN Alarm_CheckAndTrigger(
             [m EXCEPT !.timer_1s_accumulator = 0,
                       !.g_real_time = AdvanceRealTime(m.g_real_time),
                       !.nadv = m.nadv + 1])
    ELSE m

\* AlarmTimer_Process();
MainProcess(m) == [m EXCEPT !.timer = AlarmTimer_Process(m.timer)]

\* The times of day a received message may carry.
SyncTimes ==
    {[hour |-> 23, minute |-> 59, second |-> 59],
     [hour |-> 7, minute |-> 30, second |-> 0]}

\* The rest of the loop body.  rx is <<>> when no reception has finished (or
\* its message does not parse), else <<t>> with t the time of day of the
\* message that weather_parse hands to parse_time_str_to_realtime.
MainRest(m, rx) == IF rx = <<>> THEN m ELSE [m EXCEPT !.g_real_time = rx[1]]

\* main() up to its loop: AlarmManager_Init(), the wall clock set to
\* 00:00:00, Alarm_Register(30000, ALARM_REPEAT, Alarm0_Callback).
MainInit ==
    LET m0 == [alarm_queue |-> AlarmManager_Init.alarm_queue,
               queue_size |-> AlarmManager_Init.queue_size,
               next_id |-> AlarmManager_Init.next_id,
               nreg |-> 0, nins |-> 0, ticks |-> 0, calls |-> <<>>]
    IN  Alarm_Register(m0, 30000, ALARM_REPEAT, "Alarm0_Callback")

InitMain ==
    /\ alarm_queue = MainInit.mem.alarm_queue
    /\ queue_size = MainInit.mem.queue_size
    /\ next_id = MainInit.mem.next_id
    /\ op = [name |-> "Alarm_Register"]
    /\ ret = MainInit.ret
    /\ fired = <<>>
    /\ effect = TRUE
    /\ nreg = MainInit.mem.nreg
    /\ nins = MainInit.mem.nins
    /\ ndel = 0
    /\ ticks = 0
    /\ Update_Flag = 0
    /\ timer_1s_accumulator = 0
    /\ g_real_time = [hour |-> 0, minute |-> 0, second |-> 0]
    /\ pc = "poll"
    /\ seen = 0
    /\ polled = FALSE
    /\ nirq = 0
    /\ nobs = 0
    /\ ninc = 0
    /\ nsync = 0
    /\ InitClockVars
    /\ InitUartVars

\* The variables after a step that left memory m.
StoreMain(m) ==
    /\ Store(m.timer)
    /\ Update_Flag' = m.Update_Flag
    /\ timer_1s_accumulator' = m.timer_1s_accumulator
    /\ g_real_time' = m.g_real_time
    /\ last_second' = m.last_second
    /\ nadv' = m.nadv
    /\ nchk' = m.nchk
    /\ rung' = m.rung
    /\ UNCHANGED <<tim10, uartVars>>

\* The TIM10 update interrupt; main() can be anywhere in its loop.
Irq ==
    /\ StoreMain(TIM1_UP_TIM10_IRQHandler(MainMem))
    /\ op' = [name |-> "TIM1_UP_TIM10_IRQHandler"]
    /\ ret' = 0
    /\ nirq' = nirq + 1
    /\ polled' = FALSE
    /\ UNCHANGED <<ndel, ticks, pc, seen, nobs, ninc, nsync>>

\* if (Update_Flag == 1)
Poll ==
    /\ pc = "poll"
    /\ StoreMain(MainMem)
    /\ op' = [name |-> "main", at |-> "poll"]
    /\ ret' = 0
    /\ seen' = Update_Flag
    /\ polled' = TRUE
    /\ nobs' = IF Update_Flag = 1 THEN nobs + 1 ELSE nobs
    /\ pc' = IF Update_Flag = 1 THEN "clear" ELSE "rest"
    /\ UNCHANGED <<ndel, ticks, nirq, ninc, nsync>>

Clear ==
    /\ pc = "clear"
    /\ StoreMain(MainClear(MainMem))
    /\ op' = [name |-> "main", at |-> "clear"]
    /\ ret' = 0
    /\ pc' = "inc"
    /\ UNCHANGED <<ndel, ticks, seen, polled, nirq, nobs, ninc, nsync>>

Accumulate ==
    /\ pc = "inc"
    /\ StoreMain(MainAccumulate(MainMem))
    /\ op' = [name |-> "main", at |-> "inc"]
    /\ ret' = 0
    /\ ninc' = ninc + 1
    /\ pc' = "sec"
    /\ UNCHANGED <<ndel, ticks, seen, polled, nirq, nobs, nsync>>

Second ==
    /\ pc = "sec"
    /\ StoreMain(MainSecond(MainMem))
    /\ op' = [name |-> "main", at |-> "sec"]
    /\ ret' = 0
    /\ pc' = "proc"
    /\ UNCHANGED <<ndel, ticks, seen, polled, nirq, nobs, ninc, nsync>>

Process ==
    /\ pc = "proc"
    /\ StoreMain(MainProcess(MainMem))
    /\ op' = [name |-> "AlarmTimer_Process"]
    /\ ret' = 0
    /\ ticks' = ticks + 1
    /\ pc' = "rest"
    /\ UNCHANGED <<ndel, seen, polled, nirq, nobs, ninc, nsync>>

Rest(rx) ==
    /\ pc = "rest"
    /\ StoreMain(MainRest(MainMem, rx))
    /\ op' = [name |-> "main", at |-> "rest", rx |-> rx]
    /\ ret' = 0
    /\ nsync' = IF rx = <<>> THEN nsync ELSE nsync + 1
    /\ pc' = "poll"
    /\ UNCHANGED <<ndel, ticks, seen, polled, nirq, nobs, ninc>>

RxInputs ==
    IF nsync < MaxSyncs THEN {<<t>> : t \in SyncTimes} \cup {<<>>} ELSE {<<>>}

\* The interrupt may be up to MaxBehind firings further ahead of the
\* AlarmTimer_Process calls than one.
NextMain ==
    \/ /\ nirq < MaxIrqs
       /\ nirq - ticks <= MaxBehind
       /\ Irq
    \/ Poll
    \/ Clear
    \/ Accumulate
    \/ Second
    \/ Process
    \/ \E rx \in RxInputs : Rest(rx)

SpecMain == InitMain /\ [][NextMain]_vars

\* As SpecMain, with the main loop testing Update_Flag at least once between
\* any two firings of the interrupt.
NextPolled ==
    \/ /\ nirq < MaxIrqs
       /\ nirq = 0 \/ polled
       /\ Irq
    \/ Poll
    \/ Clear
    \/ Accumulate
    \/ Second
    \/ Process
    \/ \E rx \in RxInputs : Rest(rx)

SpecPolled == InitMain /\ [][NextPolled]_vars

(***************************************************************************)
(* The wall clock driven by the ticks alone: no reception finishes.  The   *)
(* clock needs 86400 * AccumulatorLimit ticks to go round, so the loop is  *)
(* entered at several moments of the day instead of at 00:00:00 only: each *)
(* start is the state in which the loop, k seconds after it began (k *     *)
(* AccumulatorLimit ticks, each observed), tests Update_Flag again, with   *)
(* the history counters counting from that moment.                         *)
(***************************************************************************)
ClockStarts ==
    {[hour |-> 0,  minute |-> 0,  second |-> 0],
     [hour |-> 0,  minute |-> 0,  second |-> 58],
     [hour |-> 0,  minute |-> 59, second |-> 58],
     [hour |-> 12, minute |-> 29, second |-> 58],
     [hour |-> 23, minute |-> 59, second |-> 58]}

\* Ticks processed when the clock, started at 00:00:00, first shows t.
TicksUntil(t) == AccumulatorLimit * ((t.hour * 60 + t.minute) * 60 + t.second)

InitClock ==
    /\ g_real_time \in ClockStarts
    /\ alarm_queue =
           [MainInit.mem.alarm_queue EXCEPT
               ![0].remain_time =
                   @ - (TicksUntil(g_real_time) % MainInit.mem.alarm_queue[0].duration)]
    /\ queue_size = MainInit.mem.queue_size
    /\ next_id = MainInit.mem.next_id
    /\ op = [name |-> "main", at |-> "rest", rx |-> <<>>]
    /\ ret = 0
    /\ fired = <<>>
    /\ effect = TRUE
    /\ nreg = MainInit.mem.nreg
    /\ nins = MainInit.mem.nins
    /\ ndel = 0
    /\ ticks = 0
    /\ Update_Flag = 0
    /\ timer_1s_accumulator = 0
    /\ pc = "poll"
    /\ seen = 0
    /\ polled = FALSE
    /\ nirq = 0
    /\ nobs = 0
    /\ ninc = 0
    /\ nsync = 0
    /\ tim10 = TIM10_TimeSliceInit
    /\ last_second = IF TicksUntil(g_real_time) = 0 THEN 255 ELSE g_real_time.second
    /\ nadv = 0
    /\ nchk = 0
    /\ rung = <<>>
    /\ InitUartVars

NextClock ==
    \/ /\ nirq < MaxClockIrqs
       /\ nirq - ticks <= MaxBehind
       /\ Irq
    \/ Poll
    \/ Clear
    \/ Accumulate
    \/ Second
    \/ Process
    \/ Rest(<<>>)

SpecClock == InitClock /\ [][NextClock]_vars

(***************************************************************************)
(* The reception: SysTick_Handler, USART3_IRQHandler and the part of the   *)
(* loop body of main() that consumes a finished reception.  The other      *)
(* parts of the loop body neither read nor write Uart3 or ReceiveBuffer.   *)
(* The consumer is cut at every read and write of Uart3; a handler can     *)
(* come between any two pieces.  Each handler is taken to run to its end   *)
(* before the other is entered.                                            *)
(***************************************************************************)
UartMem == [Uart3 |-> Uart3, Rxbuf |-> Rxbuf, wrote |-> <<>>]

\* Uart3.Rxbuf[i] = v.  A write past the end of ReceiveBuffer leaves the
\* buffer as it is and is recorded in wrote; what it hits is chosen in
\* PastTheEnd.
WriteRxbuf(m, i, v) ==
    IF i \in RxIndexes
    THEN [m EXCEPT !.Rxbuf[i] = v, !.wrote = Append(m.wrote, i)]
    ELSE [m EXCEPT !.wrote = Append(m.wrote, i)]

\* What a zero byte written behind ReceiveBuffer can do to Uart3, which
\* USART.c defines right after it: nothing, or clear the low byte of one of
\* its fields.
PastTheEnd(m) ==
    IF \A k \in 1 .. Len(m.wrote) : m.wrote[k] \in RxIndexes
    THEN {m}
    ELSE {m,
          [m EXCEPT !.Uart3.RXlenth = @ - (@ % 256)],
          [m EXCEPT !.Uart3.Time = @ - (@ % 256)],
          [m EXCEPT !.Uart3.ReceiveFinish = @ - (@ % 256)]}

\* void SysTick_Handler(void), up to TimingDelay_Decrement().
SysTick_Handler(m) ==
    IF m.Uart3.RXlenth > 0
    THEN LET time == m.Uart3.Time + 1
         IN  IF time >= RX_TIMEOUT
             THEN [m EXCEPT !.Uart3.ReceiveFinish = 1, !.Uart3.Time = 0]
             ELSE [m EXCEPT !.Uart3.Time = time]
    ELSE m

\* void USART3_IRQHandler(void), entered with RXNE set and rec_data in the
\* data register.
USART3_IRQHandler(m, rec_data) ==
    LET stored ==
            IF m.Uart3.RXlenth < RX_BUF_SIZE
            THEN [WriteRxbuf(m, m.Uart3.RXlenth, rec_data) EXCEPT
                     !.Uart3.RXlenth = m.Uart3.RXlenth + 1,
                     !.Uart3.Time = 0]
            ELSE m
    IN  [stored EXCEPT !.Uart3.ReceiveFinish = 0]

\* The indices the terminator of main() can go to.  The test
\* Uart3.RXlenth < 300 read len and found lt; Uart3 is no volatile object,
\* so the index of the write is that same value or RXlenth read again.
TerminatorIndexes(m, lt, len) ==
    IF lt THEN {len, m.Uart3.RXlenth} ELSE {RX_BUF_SIZE - 1}

\* Uart3.Rxbuf[...] = '\0';
MainTerminate(m, i) == WriteRxbuf(m, i, 0)

\* What weather_parse reads of recv_buf: strncpy copies the bytes before the
\* first 0, and at most sizeof(temp_buf) - 1 of them.
ParserInput(m) ==
    LET zeros == {i \in RxIndexes : m.Rxbuf[i] = 0} \cup {RX_BUF_SIZE - 1}
    IN  [k \in 1 .. Min(zeros) |-> m.Rxbuf[k - 1]]

\* Uart3.ReceiveFinish = 0;  Uart3.RXlenth = 0;  Uart3.Time = 0;
MainClearFinish(m) == [m EXCEPT !.Uart3.ReceiveFinish = 0]
MainClearLen(m)    == [m EXCEPT !.Uart3.RXlenth = 0]
MainClearTime(m)   == [m EXCEPT !.Uart3.Time = 0]

\* The variables outside the reception.
otherVars ==
    <<alarm_queue, queue_size, next_id, fired, effect, nreg, nins, ndel, ticks,
      Update_Flag, timer_1s_accumulator, g_real_time, seen, polled,
      nirq, nobs, ninc, nsync, clockVars>>

\* The loop is entered with no byte arrived, or after the first
\* RX_BUF_SIZE - 2 bytes of a long message have.
UartStarts == {0, RX_BUF_SIZE - 2}

InitUart ==
    /\ alarm_queue = MainInit.mem.alarm_queue
    /\ queue_size = MainInit.mem.queue_size
    /\ next_id = MainInit.mem.next_id
    /\ op = [name |-> "Alarm_Register"]
    /\ ret = MainInit.ret
    /\ fired = <<>>
    /\ effect = TRUE
    /\ nreg = MainInit.mem.nreg
    /\ nins = MainInit.mem.nins
    /\ ndel = 0
    /\ ticks = 0
    /\ Update_Flag = 0
    /\ timer_1s_accumulator = 0
    /\ g_real_time = [hour |-> 0, minute |-> 0, second |-> 0]
    /\ pc = "rxtest"
    /\ seen = 0
    /\ polled = FALSE
    /\ nirq = 0
    /\ nobs = 0
    /\ ninc = 0
    /\ nsync = 0
    /\ InitClockVars
    /\ nrx \in UartStarts
    /\ Uart3 = UartAfter(nrx).Uart3
    /\ Rxbuf = UartAfter(nrx).Rxbuf
    /\ rx_lt = FALSE
    /\ rx_len = 0
    /\ heard = (nrx > 0)
    /\ quiet = IF nrx > 0 THEN 0 ELSE MaxQuiet
    /\ rx_reset = "none"
    /\ nsys = 0
    /\ nparse = 0
    /\ fresh = nrx
    /\ handed = <<>>
    /\ wrote = <<>>

\* The variables after a step that left m of Uart3 and ReceiveBuffer.
StoreUart(m) ==
    /\ Uart3' = m.Uart3
    /\ Rxbuf' = m.Rxbuf
    /\ wrote' = m.wrote
    /\ ret' = 0
    /\ UNCHANGED otherVars

SysTick ==
    /\ StoreUart(SysTick_Handler(UartMem))
    /\ op' = [name |-> "SysTick_Handler"]
    /\ nsys' = nsys + 1
    /\ quiet' = Min({quiet + 1, MaxQuiet})
    /\ handed' = <<>>
    /\ UNCHANGED <<pc, rx_lt, rx_len, heard, rx_reset, nrx, nparse, fresh>>

RxByte ==
    LET r == USART3_IRQHandler(UartMem, ByteNo(nrx + 1))
    IN  /\ StoreUart(r)
        /\ op' = [name |-> "USART3_IRQHandler", rec_data |-> ByteNo(nrx + 1)]
        /\ nrx' = nrx + 1
        /\ quiet' = 0
        /\ heard' = TRUE
        /\ rx_reset' = "none"
        /\ fresh' = fresh + Len(r.wrote)
        /\ handed' = <<>>
        /\ UNCHANGED <<pc, rx_lt, rx_len, nsys, nparse>>

\* if (Uart3.ReceiveFinish == 1)
RxTest ==
    /\ pc = "rxtest"
    /\ StoreUart(UartMem)
    /\ op' = [name |-> "main", at |-> "rxtest"]
    /\ pc' = IF Uart3.ReceiveFinish = 1 THEN "rxcheck" ELSE "rxtest"
    /\ handed' = <<>>
    /\ UNCHANGED <<rx_lt, rx_len, heard, quiet, rx_reset, nrx, nsys, nparse, fresh>>

\* if (Uart3.RXlenth < 300)
RxCheck ==
    /\ pc = "rxcheck"
    /\ StoreUart(UartMem)
    /\ op' = [name |-> "main", at |-> "rxcheck"]
    /\ rx_lt' = (Uart3.RXlenth < RX_BUF_SIZE)
    /\ rx_len' = Uart3.RXlenth
    /\ pc' = "rxterm"
    /\ handed' = <<>>
    /\ UNCHANGED <<heard, quiet, rx_reset, nrx, nsys, nparse, fresh>>

RxTerminate ==
    /\ pc = "rxterm"
    /\ \E i \in TerminatorIndexes(UartMem, rx_lt, rx_len) :
           \E r \in PastTheEnd(MainTerminate(UartMem, i)) : StoreUart(r)
    /\ op' = [name |-> "main", at |-> "rxterm"]
    /\ pc' = "rxparse"
    /\ handed' = <<>>
    /\ UNCHANGED <<rx_lt, rx_len, heard, quiet, rx_reset, nrx, nsys, nparse, fresh>>

\* weather_parse((char *)Uart3.Rxbuf); weather_lcd_show(); refresh_count = 0;
\* The bytes of the model never make up a message of six fields, so
\* weather_parse returns without setting the wall clock.
RxParse ==
    /\ pc = "rxparse"
    /\ nparse < MaxParses
    /\ StoreUart(UartMem)
    /\ op' = [name |-> "weather_parse"]
    /\ handed' = <<[len |-> Uart3.RXlenth, fresh |-> fresh,
                    data |-> ParserInput(UartMem)]>>
    /\ nparse' = nparse + 1
    /\ fresh' = 0
    /\ pc' = "rxclrfinish"
    /\ UNCHANGED <<rx_lt, rx_len, heard, quiet, rx_reset, nrx, nsys>>

RxClearFinish ==
    /\ pc = "rxclrfinish"
    /\ StoreUart(MainClearFinish(UartMem))
    /\ op' = [name |-> "main", at |-> "rxclrfinish"]
    /\ heard' = FALSE
    /\ rx_reset' = "begun"
    /\ pc' = "rxclrlen"
    /\ handed' = <<>>
    /\ UNCHANGED <<rx_lt, rx_len, quiet, nrx, nsys, nparse, fresh>>

RxClearLen ==
    /\ pc = "rxclrlen"
    /\ StoreUart(MainClearLen(UartMem))
    /\ op' = [name |-> "main", at |-> "rxclrlen"]
    /\ heard' = FALSE
    /\ pc' = "rxclrtime"
    /\ handed' = <<>>
    /\ UNCHANGED <<rx_lt, rx_len, quiet, rx_reset, nrx, nsys, nparse, fresh>>

\* Uart3.Time = 0; then the LED and delay_ms(200), and the loop comes round.
RxClearTime ==
    /\ pc = "rxclrtime"
    /\ StoreUart(MainClearTime(UartMem))
    /\ op' = [name |-> "main", at |-> "rxclrtime"]
    /\ heard' = FALSE
    /\ rx_reset' = IF rx_reset = "begun" THEN "done" ELSE rx_reset
    /\ pc' = "rxtest"
    /\ handed' = <<>>
    /\ UNCHANGED <<rx_lt, rx_len, quiet, nrx, nsys, nparse, fresh>>

\* Up to MaxBytes bytes arrive after the start.
BytesLeft ==
    IF nrx >= RX_BUF_SIZE - 2
    THEN nrx < RX_BUF_SIZE - 2 + MaxBytes
    ELSE nrx < MaxBytes

NextUart ==
    \/ nsys < MaxSysTicks /\ SysTick
    \/ BytesLeft /\ RxByte
    \/ RxTest
    \/ RxCheck
    \/ RxTerminate
    \/ RxParse
    \/ RxClearFinish
    \/ RxClearLen
    \/ RxClearTime

SpecUart == InitUart /\ [][NextUart]_vars

(***************************************************************************)
(* The timer module under ticks that never stop: alarms are registered     *)
(* (none is cancelled) and AlarmTimer_Process is called again and again,   *)
(* as the main loop calls it once for every tick it observes               *)
(* (main.c:742-777).  The history counters stay at MaxLiveHist, so that    *)
(* the queue returns to states it has been in.                             *)
(***************************************************************************)
Capped(x) == IF x > MaxLiveHist THEN MaxLiveHist ELSE x

CapHistory(m) ==
    [m EXCEPT
        !.nins = Capped(m.nins),
        !.alarm_queue =
            [i \in Slots |->
                [m.alarm_queue[i] EXCEPT !.ins = Capped(@), !.nfired = Capped(@)]]]

LiveDurationsMs == {k * TIME_SLICE_MS : k \in 1 .. MaxLiveDur}

\* ticks is counted modulo MaxLiveHist + 1 here, so that every call of
\* AlarmTimer_Process is a step that changes the state.
Ticked == ticks' = (ticks + 1) % (MaxLiveHist + 1)

TickCall ==
    /\ Store(CapHistory(AlarmTimer_Process(Mem)))
    /\ op' = [name |-> "AlarmTimer_Process"]
    /\ ret' = 0
    /\ Ticked
    /\ UNCHANGED ndel
    /\ UNCHANGED mainVars

NextTicking ==
    \/ /\ nreg < MaxLiveRegs
       /\ \E d \in LiveDurationsMs, m \in Modes, c \in Callbacks :
              AddCall(d, m, c)
       /\ UNCHANGED mainVars
    \/ TickCall

\* Ticks keep being observed: AlarmTimer_Process is called again and again.
\* TickCall has no guard and is the one action that changes ticks, so its
\* steps are the steps that change ticks, and the condition is stated on
\* those.
SpecTicking == Init /\ [][NextTicking]_vars /\ WF_ticks(Ticked)

(***************************************************************************)
(* The timer module under an application that keeps the queue full.  Every *)
(* alarm is a one-shot of one tick, so the queue is first in, first out.   *)
(* When the queue is full a tick is observed (the head fires and leaves)   *)
(* or the newest alarm is cancelled; right after a tick the newest alarm   *)
(* is cancelled; otherwise, while there is room, an alarm is registered.   *)
(* No history is kept (the counters and the history fields of the records  *)
(* stay 0), so that the states are those of the C variables.               *)
(***************************************************************************)
ForgetHistory(m) ==
    [m EXCEPT
        !.nreg = 0,
        !.nins = 0,
        !.alarm_queue =
            [i \in Slots |->
                [m.alarm_queue[i] EXCEPT
                    !.reg = 0, !.ins = 0, !.born = 0, !.nfired = 0]]]

ReuseAdd ==
    LET r == Alarm_Add(Mem, TIME_SLICE_MS, ALARM_ONCE, "Alarm0_Callback")
    IN  /\ queue_size < MAX_ALARM_NUM
        /\ op.name # "AlarmTimer_Process"
        /\ Store(ForgetHistory(r.mem))
        /\ op' = [name |-> "Alarm_Add", duration_ms |-> TIME_SLICE_MS,
                  mode |-> ALARM_ONCE, cb |-> "Alarm0_Callback"]
        /\ ret' = r.ret
        /\ UNCHANGED <<ndel, ticks>>
        /\ UNCHANGED mainVars

ReuseDelete ==
    LET alarm_id == alarm_queue[queue_size - 1].id
        r        == Alarm_Delete(Mem, alarm_id)
    IN  /\ queue_size > 0
        /\ op.name = "AlarmTimer_Process" \/ queue_size = MAX_ALARM_NUM
        /\ Store(ForgetHistory(r.mem))
        /\ op' = [name |-> "Alarm_Delete", alarm_id |-> alarm_id]
        /\ ret' = r.ret
        /\ UNCHANGED <<ndel, ticks>>
        /\ UNCHANGED mainVars

ReuseTick ==
    /\ queue_size = MAX_ALARM_NUM
    /\ Store(ForgetHistory(AlarmTimer_Process(Mem)))
    /\ op' = [name |-> "AlarmTimer_Process"]
    /\ ret' = 0
    /\ UNCHANGED <<ndel, ticks>>
    /\ UNCHANGED mainVars

NextReuse == ReuseAdd \/ ReuseDelete \/ ReuseTick

SpecReuse == Init /\ [][NextReuse]_vars

(***************************************************************************)
(* The timer module with callbacks that call back into it (Timer.c:221-223 *)
(* invokes the callback while the fired record is still at index 0).       *)
(* Once queue_size is beyond MAX_ALARM_NUM no Alarm_Delete call is made:   *)
(* its search loop (Timer.c:180-185) would read past alarm_queue.          *)
(***************************************************************************)
QueueCallbacks ==
    Callbacks \cup {"CancelSelf_Callback", "Register_Callback", "Fill_Callback"}

CbDurationsMs == {k * TIME_SLICE_MS : k \in 1 .. MaxCbDur}

NextCallbacks ==
    \/ /\ Continue
       /\ nreg < MaxCbRegs
       /\ \E d \in CbDurationsMs, m \in Modes, c \in QueueCallbacks :
              AddCall(d, m, c)
       /\ UNCHANGED mainVars
    \/ /\ Continue
       /\ ndel < MaxCbDels
       /\ queue_size <= MAX_ALARM_NUM
       /\ \E id \in FewAlarmIds : DeleteCall(id)
       /\ UNCHANGED mainVars
    \/ /\ Continue
       /\ ticks < MaxCbTicks
       /\ ProcessCall
       /\ UNCHANGED mainVars

SpecCallbacks == Init /\ [][NextCallbacks]_vars

(***************************************************************************)
(* The reception with the tick interrupt and the main loop running for     *)
(* ever: SysTick fires every millisecond and main() keeps coming round its *)
(* loop (main.c:738), so neither the SysTick firings nor the weather_parse *)
(* calls are counted or limited here; the bytes still are (BytesLeft), and *)
(* nothing obliges one to arrive.                                          *)
(***************************************************************************)
SysTickFair ==
    /\ StoreUart(SysTick_Handler(UartMem))
    /\ op' = [name |-> "SysTick_Handler"]
    /\ quiet' = Min({quiet + 1, MaxQuiet})
    /\ handed' = <<>>
    /\ UNCHANGED <<pc, rx_lt, rx_len, heard, rx_reset, nrx, nsys, nparse, fresh>>

RxParseFair ==
    /\ pc = "rxparse"
    /\ StoreUart(UartMem)
    /\ op' = [name |-> "weather_parse"]
    /\ handed' = <<[len |-> Uart3.RXlenth, fresh |-> fresh,
                    data |-> ParserInput(UartMem)]>>
    /\ fresh' = 0
    /\ pc' = "rxclrfinish"
    /\ UNCHANGED <<rx_lt, rx_len, heard, quiet, rx_reset, nrx, nsys, nparse>>

MainStepFair ==
    \/ RxTest
    \/ RxCheck
    \/ RxTerminate
    \/ RxParseFair
    \/ RxClearFinish
    \/ RxClearLen
    \/ RxClearTime

NextUartFair ==
    \/ SysTickFair
    \/ BytesLeft /\ RxByte
    \/ MainStepFair

SpecUartFair ==
    /\ InitUart
    /\ [][NextUartFair]_vars
    /\ WF_vars(SysTickFair)
    /\ WF_vars(MainStepFair)

(***************************************************************************)
(* The wall clock driven by the ticks and set by received messages: as     *)
(* SpecClock, with the rest of the loop body handing a parsed time of day  *)
(* to parse_time_str_to_realtime (main.c:394), which writes g_real_time    *)
(* and leaves the static last_second of Alarm_CheckAndTrigger alone.       *)
(***************************************************************************)
NextClockSync ==
    \/ /\ nirq < MaxClockIrqs
       /\ nirq - ticks <= MaxBehind
       /\ Irq
    \/ Poll
    \/ Clear
    \/ Accumulate
    \/ Second
    \/ Process
    \/ \E rx \in RxInputs : Rest(rx)

SpecClockSync == InitClock /\ [][NextClockSync]_vars

(***************************************************************************)
(* Properties.                                                             *)
(***************************************************************************)
\* The slots that make up the queue, and its records.
InQueue == {i \in Slots : i < queue_size}
QueueIds == {alarm_queue[i].id : i \in InQueue}
\* The slots past the queue that still hold a record marked ALARM_VALID.
StaleSlots == {j \in Slots \ InQueue : alarm_queue[j].state = ALARM_VALID}
\* Observed ticks since the record was registered.
Age(node) == ticks - node.born
FiredNodes == {fired[k] : k \in 1 .. Len(fired)}

\* C1: a ONE_SHOT alarm of N ticks, whatever else is in the queue, has its
\* callback invoked exactly once, during the N-th AlarmTimer_Process call
\* after its registration: while it waits in the queue fewer than N calls have
\* been made, and the call that invokes it is the N-th and the first
\* invocation.
C1_OneShotFiresOnNthTick ==
    /\ \A i \in InQueue :
           alarm_queue[i].mode = ALARM_ONCE
               => Age(alarm_queue[i]) < alarm_queue[i].duration
    /\ \A f \in FiredNodes :
           f.mode = ALARM_ONCE => Age(f) = f.duration /\ f.nfired = 1

\* C2: a REPEATING alarm of N ticks, whatever else is in the queue, has its
\* callback invoked on exactly the N-th, 2N-th, 3N-th ... AlarmTimer_Process
\* call after its registration: after k calls it has been invoked k div N
\* times, and every invocation falls on a multiple of N.
C2_RepeatFiresEveryNTicks ==
    /\ \A i \in InQueue :
           alarm_queue[i].mode = ALARM_REPEAT
               => alarm_queue[i].nfired
                      = Age(alarm_queue[i]) \div alarm_queue[i].duration
    /\ \A f \in FiredNodes :
           f.mode = ALARM_REPEAT => Age(f) % f.duration = 0

\* C3: between calls the remain_time values at indices 0 .. queue_size-1 are
\* non-decreasing by index.
C3_QueueSorted ==
    \A i \in InQueue, j \in InQueue :
        i < j => ~U32Less(alarm_queue[j].remain_time, alarm_queue[i].remain_time)

\* C3 witness: a repeating alarm has just fired and was re-inserted behind
\* another record with a smaller remain_time.
C3_Witness ==
    /\ Len(fired) = 1
    /\ fired[1].mode = ALARM_REPEAT
    /\ queue_size >= 2
    /\ alarm_queue[queue_size - 1].reg = fired[1].reg
    /\ U32Less(alarm_queue[0].remain_time, alarm_queue[queue_size - 1].remain_time)

\* C4: every record in the queue has a nonzero id and no two records in the
\* queue share an id.
C4_IdsUniqueNonzero ==
    \A i \in InQueue :
        /\ alarm_queue[i].id # 0
        /\ \A j \in InQueue : i # j => alarm_queue[i].id # alarm_queue[j].id

\* C5: queue_size never exceeds MAX_ALARM_NUM, and an Alarm_Add call made
\* while queue_size = MAX_ALARM_NUM returns 0 and leaves alarm_queue and
\* queue_size unchanged, whatever its arguments.
C5_CapacityRespected ==
    /\ [](queue_size <= MAX_ALARM_NUM)
    /\ [][/\ queue_size' <= MAX_ALARM_NUM
          /\ (op'.name = "Alarm_Add" /\ queue_size = MAX_ALARM_NUM)
                 => /\ ret' = 0
                    /\ alarm_queue' = alarm_queue
                    /\ queue_size' = queue_size]_vars

\* C5 witness: a registration with a callback, a repeating mode and a valid
\* duration was refused on a full queue.
C5_Witness ==
    /\ op.name = "Alarm_Add"
    /\ op.cb # NULL
    /\ op.mode = ALARM_REPEAT
    /\ op.duration_ms >= TIME_SLICE_MS
    /\ ret = 0
    /\ queue_size = MAX_ALARM_NUM

\* C6: Alarm_Delete(id) for an id held by a record in the queue returns 1,
\* removes that record (the first one holding the id), decreases queue_size
\* by one, and leaves every other record of the queue as it was and in the
\* same order.
C6_DeleteRemovesExactlyOne ==
    [][(op'.name = "Alarm_Delete" /\ op'.alarm_id \in QueueIds)
           => /\ ret' = 1
              /\ queue_size' = queue_size - 1
              /\ \E p \in InQueue :
                     /\ alarm_queue[p].id = op'.alarm_id
                     /\ \A i \in InQueue :
                            /\ i < p => alarm_queue'[i] = alarm_queue[i]
                            /\ (i >= p /\ i < queue_size - 1)
                                   => alarm_queue'[i] = alarm_queue[i + 1]]_vars

\* C6 witness: a cancellation succeeded and took the record with id 2 out from
\* between the records with ids 1 and 3.
C6_Witness ==
    /\ op.name = "Alarm_Delete"
    /\ op.alarm_id = 2
    /\ ret = 1
    /\ queue_size = 2
    /\ alarm_queue[0].id = 1
    /\ alarm_queue[1].id = 3

\* C7: Alarm_Delete with id 0, with an id no record in the queue holds, or on
\* an empty queue returns 0 and leaves alarm_queue and queue_size unchanged.
C7_DeleteUnknownIdIsNoOp ==
    [][(/\ op'.name = "Alarm_Delete"
        /\ \/ op'.alarm_id = 0
           \/ queue_size = 0
           \/ op'.alarm_id \notin QueueIds)
           => /\ ret' = 0
              /\ alarm_queue' = alarm_queue
              /\ queue_size' = queue_size]_vars

\* C7 witness: on a queue that is not empty, a cancellation was refused for
\* the id of an ALARM_ONCE alarm that is no longer in the queue and, no
\* cancellation having succeeded so far, left it by firing; a copy of its
\* record, still marked ALARM_VALID, sits in a slot past the queue.
C7_Witness ==
    /\ op.name = "Alarm_Delete"
    /\ op.alarm_id # 0
    /\ op.alarm_id \notin QueueIds
    /\ ret = 0
    /\ ndel = 0
    /\ queue_size > 0
    /\ \E j \in StaleSlots :
           /\ alarm_queue[j].id = op.alarm_id
           /\ alarm_queue[j].mode = ALARM_ONCE

\* C8: an Alarm_Add call with a NULL callback, or with a duration below the
\* time slice, returns 0 and leaves alarm_queue, queue_size and next_id
\* unchanged.
C8_BadArgumentsRejected ==
    [][(/\ op'.name = "Alarm_Add"
        /\ \/ op'.cb = NULL
           \/ op'.duration_ms < TIME_SLICE_MS)
           => /\ ret' = 0
              /\ alarm_queue' = alarm_queue
              /\ queue_size' = queue_size
              /\ next_id' = next_id]_vars

\* C8 witness: a registration with a NULL callback and an otherwise valid
\* duration was refused on a queue that is neither empty nor full.
C8_Witness ==
    /\ op.name = "Alarm_Add"
    /\ op.cb = NULL
    /\ op.duration_ms >= TIME_SLICE_MS
    /\ ret = 0
    /\ queue_size > 0
    /\ queue_size < MAX_ALARM_NUM

\* C9: of two alarms registered with equal durations and no tick between the
\* registrations, the one registered first has its callback invoked first;
\* and among queue records with equal remain_time the one inserted earlier is
\* at the lower index.
C9_EqualDurationsFifo ==
    /\ \A i \in InQueue, j \in InQueue :
           (i < j /\ alarm_queue[i].remain_time = alarm_queue[j].remain_time)
               => alarm_queue[i].ins < alarm_queue[j].ins
    /\ \A f \in FiredNodes : \A i \in InQueue :
           (/\ alarm_queue[i].duration = f.duration
            /\ alarm_queue[i].born = f.born
            /\ alarm_queue[i].reg < f.reg)
               => alarm_queue[i].nfired >= 1

\* C9 witness: the second of two such alarms has just been invoked, the first
\* one was invoked before it and, re-inserted, sits below it with the same
\* remain_time.
C9_Witness ==
    /\ Len(fired) = 1
    /\ \E i \in InQueue, j \in InQueue :
           /\ i < j
           /\ alarm_queue[j].reg = fired[1].reg
           /\ alarm_queue[i].reg < alarm_queue[j].reg
           /\ alarm_queue[i].duration = alarm_queue[j].duration
           /\ alarm_queue[i].born = alarm_queue[j].born
           /\ alarm_queue[i].remain_time = alarm_queue[j].remain_time
           /\ alarm_queue[i].nfired >= 1

\* C10: every successful Alarm_Add returns an id in 1 .. MAX_ALARM_NUM that is
\* the smallest positive integer not held by any record in the queue at the
\* time of the call.
C10_SmallestFreeId ==
    [][(op'.name = "Alarm_Add" /\ ret' # 0)
           => /\ ret' \in 1 .. MAX_ALARM_NUM
              /\ ret' = Min({k \in 1 .. (MAX_ALARM_NUM + 1) : k \notin QueueIds})]_vars

\* C11: a successful Alarm_Add puts exactly one new ALARM_VALID record into
\* the queue, at the index of the first record whose remain_time is strictly
\* greater than the new one's (at index queue_size if there is none); the
\* records from that index on move one up, queue_size grows by one, and every
\* record that was in the queue keeps all its fields and its place relative
\* to the others.
C11_InsertAtSortedPosition ==
    [][(op'.name = "Alarm_Add" /\ ret' # 0)
           => /\ queue_size' = queue_size + 1
              /\ \E p \in 0 .. queue_size :
                     LET new   == alarm_queue'[p]
                         later == {i \in InQueue :
                                      U32Less(new.remain_time,
                                              alarm_queue[i].remain_time)}
                     IN  /\ new.reg = nreg'
                         /\ new.state = ALARM_VALID
                         /\ new.id = ret'
                         /\ p = (IF later = {} THEN queue_size ELSE Min(later))
                         /\ \A i \in InQueue :
                                /\ i < p => alarm_queue'[i] = alarm_queue[i]
                                /\ i >= p => alarm_queue'[i + 1] = alarm_queue[i]]_vars

\* C11 witness: a registration has just placed its record between two
\* records, behind one with the same remain_time and before one with a
\* greater remain_time.
C11_Witness ==
    /\ op.name = "Alarm_Add"
    /\ ret # 0
    /\ queue_size = 3
    /\ alarm_queue[1].reg = nreg
    /\ alarm_queue[0].remain_time = alarm_queue[1].remain_time
    /\ U32Less(alarm_queue[1].remain_time, alarm_queue[2].remain_time)

\* C12: the duration argument of the registration call is a tick count that
\* is stored unscaled: after a successful call with duration argument d the
\* new record has duration = remain_time = d.
C12_DurationStoredUnscaled ==
    [][(op'.name = "Alarm_Add" /\ ret' # 0)
           => \E p \in Slots :
                  /\ p < queue_size'
                  /\ alarm_queue'[p].reg = nreg'
                  /\ alarm_queue'[p].duration = op'.duration_ms
                  /\ alarm_queue'[p].remain_time = op'.duration_ms]_vars

\* C13: while a ONE_SHOT alarm of N ticks is the only alarm in the queue, the
\* first N-1 AlarmTimer_Process calls after its registration invoke no
\* callback and leave queue_size at 1, the N-th call invokes its callback
\* (for the first time, and once) and leaves queue_size at 0, and calls made
\* on the empty queue afterwards invoke nothing.
C13_SoloOneShot ==
    [][(op'.name = "AlarmTimer_Process")
           => /\ (queue_size = 1 /\ alarm_queue[0].mode = ALARM_ONCE)
                     => LET a == alarm_queue[0]
                        IN  IF ticks' - a.born < a.duration
                            THEN /\ fired' = <<>>
                                 /\ queue_size' = 1
                                 /\ alarm_queue'[0].reg = a.reg
                            ELSE /\ ticks' - a.born = a.duration
                                 /\ a.nfired = 0
                                 /\ Len(fired') = 1
                                 /\ fired'[1].reg = a.reg
                                 /\ queue_size' = 0
              /\ queue_size = 0 => (fired' = <<>> /\ queue_size' = 0)]_vars

\* C13 witness: the fifth call after the registration of a lone ONE_SHOT
\* alarm of 5 ticks has just invoked its callback and emptied the queue.
C13_Witness ==
    /\ op.name = "AlarmTimer_Process"
    /\ Len(fired) = 1
    /\ fired[1].mode = ALARM_ONCE
    /\ fired[1].duration = 5
    /\ Age(fired[1]) = 5
    /\ queue_size = 0

\* C14: while a REPEATING alarm of N ticks is the only alarm in the queue,
\* after k AlarmTimer_Process calls since its registration its callback has
\* been invoked k div N times (once during each call whose k is a multiple
\* of N, never during another), and queue_size is 1 after every call.
C14_SoloRepeat ==
    [][(/\ op'.name = "AlarmTimer_Process"
        /\ queue_size = 1
        /\ alarm_queue[0].mode = ALARM_REPEAT)
           => LET a == alarm_queue[0]
                  k == ticks' - a.born
              IN  /\ queue_size' = 1
                  /\ alarm_queue'[0].reg = a.reg
                  /\ alarm_queue'[0].nfired = k \div a.duration
                  /\ Len(fired') = (IF k % a.duration = 0 THEN 1 ELSE 0)]_vars

\* C14 witness: a lone REPEATING alarm of 3 ticks after 9 calls, invoked 3
\* times.
C14_Witness ==
    /\ op.name = "AlarmTimer_Process"
    /\ queue_size = 1
    /\ alarm_queue[0].mode = ALARM_REPEAT
    /\ alarm_queue[0].duration = 3
    /\ Age(alarm_queue[0]) = 9
    /\ alarm_queue[0].nfired = 3

\* C15: starting from the queue as AlarmManager_Init leaves it, MAX_ALARM_NUM
\* consecutive Alarm_Add calls with a callback and pairwise distinct
\* durations all succeed and return pairwise distinct nonzero ids (each
\* returns an id that no record in the queue holds, and becomes the id of one
\* more record), and the call after them returns 0.
C15_FillThenRefuse ==
    /\ []((ticks = 0 /\ ndel = 0)
              => /\ queue_size = nreg
                 /\ Cardinality(QueueIds) = nreg
                 /\ 0 \notin QueueIds)
    /\ [][(/\ op'.name = "Alarm_Add"
            /\ op'.cb # NULL
            /\ op'.duration_ms >= TIME_SLICE_MS
            /\ ticks = 0
            /\ ndel = 0)
               => IF nreg < MAX_ALARM_NUM
                  THEN /\ ret' # 0
                       /\ ret' \notin QueueIds
                       /\ nreg' = nreg + 1
                       /\ \A i \in InQueue, j \in InQueue :
                              i # j => alarm_queue[i].duration # alarm_queue[j].duration
                  ELSE ret' = 0]_vars

\* C15 witness: after MAX_ALARM_NUM successful registrations and nothing
\* else, one more registration with a callback and a valid duration has just
\* returned 0.
C15_Witness ==
    /\ op.name = "Alarm_Add"
    /\ op.cb # NULL
    /\ op.duration_ms >= TIME_SLICE_MS
    /\ ret = 0
    /\ nreg = MAX_ALARM_NUM
    /\ ticks = 0
    /\ ndel = 0
    /\ Cardinality(QueueIds) = MAX_ALARM_NUM

\* The iteration of the main loop that found Update_Flag set and has cleared
\* it, but has not called AlarmTimer_Process yet.
InFlight == IF pc \in {"inc", "sec", "proc"} THEN 1 ELSE 0

\* A step of main() that belongs to an iteration which found Update_Flag
\* clear: the test itself, or the rest of the loop body after it.
NoTickStep ==
    \/ pc = "poll" /\ pc' = "rest"
    \/ pc = "rest" /\ pc' = "poll" /\ seen = 0

\* C16: every iteration of the main loop that finds Update_Flag set clears
\* it, calls AlarmTimer_Process exactly once and increments
\* timer_1s_accumulator by exactly one (when main() is at the test, or past
\* the call, there have been as many calls and as many increments as tests
\* that found the flag set); an iteration that finds the flag clear changes neither the
\* alarm queue, nor the accumulator, nor the wall clock, and invokes no alarm
\* callback.
C16_IterationPerTick ==
    /\ [](pc \in {"poll", "rest"} => (ticks = nobs /\ ninc = nobs))
    /\ [][/\ (pc = "clear" /\ pc' = "inc") => Update_Flag' = 0
          /\ (pc = "inc" /\ pc' = "sec")
                 => timer_1s_accumulator' = timer_1s_accumulator + 1
          /\ NoTickStep
                 => /\ alarm_queue' = alarm_queue
                    /\ queue_size' = queue_size
                    /\ timer_1s_accumulator' = timer_1s_accumulator
                    /\ g_real_time' = g_real_time
                    /\ fired' = <<>>]_vars

\* C16 as amended: the same, except that the iteration that finds the flag
\* clear may change the wall clock in the rest of its loop body, where a
\* finished reception sets it to the time of day of the received message, and
\* in no other way.
C16_IterationPerTickOrSync ==
    /\ [](pc \in {"poll", "rest"} => (ticks = nobs /\ ninc = nobs))
    /\ [][/\ (pc = "clear" /\ pc' = "inc") => Update_Flag' = 0
          /\ (pc = "inc" /\ pc' = "sec")
                 => timer_1s_accumulator' = timer_1s_accumulator + 1
          /\ NoTickStep
                 => /\ alarm_queue' = alarm_queue
                    /\ queue_size' = queue_size
                    /\ timer_1s_accumulator' = timer_1s_accumulator
                    /\ g_real_time' # g_real_time
                           => /\ pc = "rest"
                              /\ op'.rx # <<>>
                              /\ g_real_time' = op'.rx[1]
                    /\ fired' = <<>>]_vars

\* C16 witness: main() is back at the test after two iterations that found
\* the flag set and one that found it clear and set the wall clock.
C16_Witness ==
    /\ pc = "poll"
    /\ nobs = 2
    /\ ticks = 2
    /\ timer_1s_accumulator = 2
    /\ seen = 0
    /\ nsync = 1
    /\ g_real_time.hour = 23

\* The iteration of the main loop that found Update_Flag set and has not
\* called AlarmTimer_Process yet.
CallOwed == IF pc \in {"clear", "inc", "sec", "proc"} THEN 1 ELSE 0

\* C17: if the main loop tests Update_Flag at least once between any two
\* firings of the interrupt, no tick is dropped: at every moment the
\* AlarmTimer_Process calls made, with the one the running iteration is
\* about to make, are as many as the firings of the interrupt, or one fewer
\* while Update_Flag is set.
C17_NoTickDropped ==
    \/ ticks + CallOwed = nirq
    \/ ticks + CallOwed = nirq - 1 /\ Update_Flag = 1

\* C18: under every interleaving of interrupt firings and main-loop steps
\* AlarmTimer_Process is called at most once per firing: the calls made (and
\* the one about to be made) never exceed the firings whose flag is no longer
\* set, nor the tests that found the flag set, however many firings came
\* between two tests.
C18_AtMostOneCallPerFiring ==
    /\ ticks + InFlight + Update_Flag <= nirq
    /\ ticks + InFlight <= nobs

\* C18 witness: the interrupt fired a second time after main() had found the
\* flag set and before it cleared it; the flag is clear now, and the two
\* firings get the one call this iteration is about to make.
C18_Witness ==
    /\ pc = "inc"
    /\ ~polled
    /\ nirq = 2
    /\ ticks = 0
    /\ nobs = 1
    /\ Update_Flag = 0

C20_SecondEveryHundredTicks ==
    [][(pc = "sec" /\ pc' = "proc")
           => IF timer_1s_accumulator = 1000 \div TIME_SLICE_MS
              THEN /\ timer_1s_accumulator' = 0
                   /\ g_real_time'.second = (g_real_time.second + 1) % 60
              ELSE /\ timer_1s_accumulator' = timer_1s_accumulator
                   /\ g_real_time' = g_real_time]_vars

\* C27: AlarmTimer_Process changes nothing and invokes no callback when the
\* queue is empty or the record at index 0 is not ALARM_VALID; otherwise it
\* takes exactly one off the remain_time of the record at index 0 (which then
\* stays where it is, or, at 0, has its callback invoked) and leaves the
\* remain_time of every other record of the queue as it was.
C27_OnlyHeadDecremented ==
    [][(op'.name = "AlarmTimer_Process")
           => IF queue_size = 0 \/ alarm_queue[0].state # ALARM_VALID
              THEN /\ alarm_queue' = alarm_queue
                   /\ queue_size' = queue_size
                   /\ next_id' = next_id
                   /\ fired' = <<>>
              ELSE LET head == alarm_queue[0]
                   IN  /\ IF head.remain_time - 1 = 0
                          THEN /\ Len(fired') = 1
                               /\ fired'[1].reg = head.reg
                          ELSE /\ fired' = <<>>
                               /\ alarm_queue'[0] =
                                      [head EXCEPT !.remain_time = head.remain_time - 1]
                               /\ queue_size' = queue_size
                       /\ \A i \in InQueue \ {0} :
                              \E j \in Slots :
                                  /\ j < queue_size'
                                  /\ alarm_queue'[j] = alarm_queue[i]]_vars

\* C27 witness: a call has just taken the head of a queue of three records
\* from 2 to 1 without invoking anything.
C27_Witness ==
    /\ op.name = "AlarmTimer_Process"
    /\ fired = <<>>
    /\ queue_size = 3
    /\ alarm_queue[0].remain_time = 1
    /\ alarm_queue[0].duration = 2
    /\ alarm_queue[1].remain_time = 2

\* C28: in every state the slots at indices 0 .. queue_size-1 are ALARM_VALID
\* and every slot at an index >= queue_size is ALARM_INVALID: no removal
\* leaves a copy marked ALARM_VALID behind in a vacated slot.
C28_ValidExactlyInQueue ==
    \A i \in Slots :
        IF i < queue_size
        THEN alarm_queue[i].state = ALARM_VALID
        ELSE alarm_queue[i].state = ALARM_INVALID

\* C30: between calls every record in the queue has
\* 1 <= remain_time <= duration; AlarmTimer_Process never decrements a
\* remain_time that is 0, and it invokes the callback of the head during the
\* very call that brings its remain_time to 0, and during no other.
C30_RemainingWithinPeriod ==
    /\ [](\A i \in InQueue :
              /\ 1 <= alarm_queue[i].remain_time
              /\ alarm_queue[i].remain_time <= alarm_queue[i].duration)
    /\ [][(op'.name = "AlarmTimer_Process" /\ queue_size > 0)
              => /\ alarm_queue[0].remain_time # 0
                 /\ IF alarm_queue[0].remain_time = 1
                    THEN Len(fired') = 1 /\ fired'[1].reg = alarm_queue[0].reg
                    ELSE fired' = <<>>]_vars

\* C30 witness: the second of two calls has brought a repeating head of
\* duration 2 from 1 to 0 and invoked its callback; the record is back in the
\* queue with remain_time = duration, and a record cancelled earlier is gone.
C30_Witness ==
    /\ op.name = "AlarmTimer_Process"
    /\ Len(fired) = 1
    /\ fired[1].mode = ALARM_REPEAT
    /\ fired[1].duration = 2
    /\ ndel = 1
    /\ \E i \in InQueue :
           /\ alarm_queue[i].reg = fired[1].reg
           /\ alarm_queue[i].remain_time = 2

C22_TickRateExact ==
    /\ TIM10_UpdateHz(tim10) = 100
    /\ TIM10_UpdateHz(tim10) * TIME_SLICE_MS = 1000
    /\ TIM10_UpdateRemainder(tim10) = <<0, 0>>

\* C21: with the clock driven by the ticks alone, second < 60, minute < 60
\* and hour < 24 in every state; every change of the clock is a
\* second-advance, which carries the seconds into the minutes at 60, the
\* minutes into the hours at 60 and wraps the hours at 24 (23:59:59 is
\* followed by 00:00:00); and Alarm_CheckAndTrigger is called exactly once per
\* second-advance.
C21_ClockCarries ==
    /\ [](/\ g_real_time.second < 60
          /\ g_real_time.minute < 60
          /\ g_real_time.hour < 24
          /\ nchk = nadv)
    /\ [][LET t == g_real_time
          IN  /\ (nadv' # nadv \/ g_real_time' # t)
                     => /\ op'.name = "main" /\ op'.at = "sec"
                        /\ nadv' = nadv + 1
                        /\ g_real_time'.second = (t.second + 1) % 60
                        /\ g_real_time'.minute =
                               IF t.second = 59 THEN (t.minute + 1) % 60 ELSE t.minute
                        /\ g_real_time'.hour =
                               IF t.second = 59 /\ t.minute = 59
                               THEN (t.hour + 1) % 24
                               ELSE t.hour
              /\ nchk' - nchk = nadv' - nadv]_vars

\* C21 witness: the second-advance that followed 23:59:59 has just set the
\* clock to 00:00:00 and made its one call of Alarm_CheckAndTrigger, which
\* invoked the callback of the enabled 00:00 entry of g_alarm_list.
C21_Witness ==
    /\ op = [name |-> "main", at |-> "sec"]
    /\ g_real_time = [hour |-> 0, minute |-> 0, second |-> 0]
    /\ nadv = 2
    /\ nchk = 2
    /\ rung = <<2>>

\* C23: once a byte has arrived and main() has not since written any of its
\* resets, ReceiveFinish is 0 while fewer than 10 SysTick firings have
\* followed the last byte, and 1 from the 10th on; and it is never set while
\* no byte has arrived at all.
C23_FinishOnTenthQuietTick ==
    /\ heard => (Uart3.ReceiveFinish = 1 <=> quiet >= RX_TIMEOUT)
    /\ nrx = 0 => Uart3.ReceiveFinish = 0

\* C24: every arriving byte, stored or dropped, sets Uart3.Time to 0 and
\* clears ReceiveFinish; and ReceiveFinish goes from 0 to 1 only when at
\* least 10 SysTick firings have followed the last arrival of a byte.
C24_EveryByteRestartsTimeout ==
    [][/\ (op'.name = "USART3_IRQHandler")
              => Uart3'.Time = 0 /\ Uart3'.ReceiveFinish = 0
       /\ (Uart3.ReceiveFinish = 0 /\ Uart3'.ReceiveFinish = 1)
              => quiet' >= RX_TIMEOUT]_vars

\* C25: RXlenth never exceeds the size of the buffer; no write of the
\* handler or of the terminator of main() goes to an index outside 0 .. 299;
\* and a byte that arrives with RXlenth at 300 leaves the buffer and RXlenth
\* as they are.
C25_WritesWithinBuffer ==
    /\ [](/\ Uart3.RXlenth <= RX_BUF_SIZE
          /\ \A k \in 1 .. Len(wrote) : wrote[k] \in RxIndexes)
    /\ [][(op'.name = "USART3_IRQHandler" /\ Uart3.RXlenth = RX_BUF_SIZE)
              => Rxbuf' = Rxbuf /\ Uart3'.RXlenth = Uart3.RXlenth]_vars

\* C26: weather_parse is called only with RXlenth > 0 and only after a byte
\* has been stored since its last call; and when main() has written its
\* three resets and no byte has arrived since it began to, RXlenth, Time and
\* ReceiveFinish are 0 and stay 0 until a byte arrives.
C26_ConsumedOnce ==
    /\ handed # <<>> => handed[1].len > 0 /\ handed[1].fresh > 0
    /\ rx_reset = "done"
           => Uart3 = [RXlenth |-> 0, Time |-> 0, ReceiveFinish |-> 0]

\* C31: when the head that reaches 0 is ALARM_REPEAT, after AlarmTimer_Process
\* the same record (id, duration, mode, callback) is in the queue with
\* remain_time = duration, behind every record whose remain_time is <= its
\* duration and in front of the first one with a greater remain_time;
\* queue_size is as before and every other record keeps its fields and its
\* place relative to the others.  When it is ALARM_ONCE the record leaves the
\* front, queue_size goes down by one and the others move one down unchanged.
C31_RepeatReinsertedOnceRemoved ==
    [][(/\ op'.name = "AlarmTimer_Process"
        /\ queue_size > 0
        /\ alarm_queue[0].state = ALARM_VALID
        /\ alarm_queue[0].remain_time = 1)
           => LET head == alarm_queue[0]
              IN  IF head.mode = ALARM_REPEAT
                  THEN /\ queue_size' = queue_size
                       /\ \E p \in InQueue :
                              /\ alarm_queue'[p].id = head.id
                              /\ alarm_queue'[p].reg = head.reg
                              /\ alarm_queue'[p].duration = head.duration
                              /\ alarm_queue'[p].mode = head.mode
                              /\ alarm_queue'[p].cb = head.cb
                              /\ alarm_queue'[p].state = ALARM_VALID
                              /\ alarm_queue'[p].remain_time = head.duration
                              /\ \A j \in InQueue :
                                     /\ j < p =>
                                            /\ alarm_queue'[j] = alarm_queue[j + 1]
                                            /\ alarm_queue'[j].remain_time <= head.duration
                                     /\ j > p =>
                                            /\ alarm_queue'[j] = alarm_queue[j]
                                            /\ alarm_queue'[j].remain_time > head.duration
                  ELSE /\ queue_size' = queue_size - 1
                       /\ \A j \in InQueue :
                              /\ j < queue_size' => alarm_queue'[j] = alarm_queue[j + 1]
                              /\ j < queue_size' => alarm_queue'[j].reg # head.reg]_vars

\* C31 witness: a repeating head of duration 1 has fired and stands again in
\* the queue with remain_time 1, behind a record with remain_time 1 and in
\* front of one with remain_time 2.
C31_Witness ==
    /\ op.name = "AlarmTimer_Process"
    /\ Len(fired) = 1
    /\ fired[1].mode = ALARM_REPEAT
    /\ queue_size = 3
    /\ alarm_queue[0].remain_time = 1
    /\ alarm_queue[1].reg = fired[1].reg
    /\ alarm_queue[1].remain_time = 1
    /\ alarm_queue[2].remain_time = 2

\* C32: no alarm is starved: with ticks that keep being observed and no
\* cancellation, every alarm that is in the queue has its callback invoked
\* at some later time, whatever other alarms are in the queue.
C32_NoStarvation ==
    \A r \in 1 .. MaxLiveRegs :
        (\E i \in InQueue : alarm_queue[i].reg = r)
            ~> (\E k \in 1 .. Len(fired) : fired[k].reg = r)

\* C33: registration never fails spuriously: in every reachable state an
\* Alarm_Add with a callback and a duration of at least one tick, made while
\* queue_size < MAX_ALARM_NUM, returns a nonzero id and puts a record with
\* that id into the queue.
C33_AddSucceedsWhenRoom ==
    [][(/\ op'.name = "Alarm_Add"
        /\ op'.cb # NULL
        /\ op'.duration_ms >= TIME_SLICE_MS
        /\ queue_size < MAX_ALARM_NUM)
           => /\ ret' # 0
              /\ queue_size' = queue_size + 1
              /\ \E i \in Slots :
                     i < queue_size' /\ alarm_queue'[i].id = ret']_vars

\* C34: when the callback of the alarm being dispatched cancels that very
\* alarm, after AlarmTimer_Process exactly that alarm is gone: every other
\* alarm is still in the queue, in its order, with its remain_time, duration
\* and mode (none is skipped or reset), and queue_size is one less, within
\* 0 .. MAX_ALARM_NUM.
C34_SelfCancelRemovesOnlyItself ==
    [][(/\ op'.name = "AlarmTimer_Process"
        /\ queue_size > 0
        /\ queue_size <= MAX_ALARM_NUM
        /\ alarm_queue[0].state = ALARM_VALID
        /\ alarm_queue[0].remain_time = 1
        /\ alarm_queue[0].cb = "CancelSelf_Callback")
           => /\ queue_size' = queue_size - 1
              /\ \A j \in InQueue \ {0} :
                     /\ alarm_queue'[j - 1].reg = alarm_queue[j].reg
                     /\ alarm_queue'[j - 1].id = alarm_queue[j].id
                     /\ alarm_queue'[j - 1].remain_time = alarm_queue[j].remain_time
                     /\ alarm_queue'[j - 1].duration = alarm_queue[j].duration
                     /\ alarm_queue'[j - 1].mode = alarm_queue[j].mode
                     /\ alarm_queue'[j - 1].state = ALARM_VALID]_vars

\* C35: the re-insertion of a fired ALARM_REPEAT alarm always succeeds, also
\* when its callback registers alarms during the dispatch, up to filling the
\* queue: an AlarmTimer_Process call that fires a repeating head whose
\* callback does not cancel it leaves that alarm in the queue, with
\* remain_time = duration; and a repeating alarm leaves the queue only in a
\* step that cancels it (an Alarm_Delete call with its id, or its own
\* dispatch when its callback cancels it).
C35_RepeatNeverDropped ==
    /\ [][(/\ op'.name = "AlarmTimer_Process"
           /\ queue_size > 0
           /\ queue_size <= MAX_ALARM_NUM
           /\ alarm_queue[0].state = ALARM_VALID
           /\ alarm_queue[0].remain_time = 1
           /\ alarm_queue[0].mode = ALARM_REPEAT
           /\ alarm_queue[0].cb # "CancelSelf_Callback")
              => /\ queue_size' <= MAX_ALARM_NUM
                 /\ \E p \in Slots :
                        /\ p < queue_size'
                        /\ alarm_queue'[p].reg = alarm_queue[0].reg
                        /\ alarm_queue'[p].id = alarm_queue[0].id
                        /\ alarm_queue'[p].state = ALARM_VALID
                        /\ alarm_queue'[p].mode = ALARM_REPEAT
                        /\ alarm_queue'[p].remain_time = alarm_queue[0].duration]_vars
    /\ [][\A i \in InQueue :
              (/\ queue_size <= MAX_ALARM_NUM
               /\ alarm_queue[i].mode = ALARM_REPEAT
               /\ ~ \E p \in Slots :
                        /\ p < queue_size'
                        /\ queue_size' <= MAX_ALARM_NUM
                        /\ alarm_queue'[p].reg = alarm_queue[i].reg)
                  => \/ /\ op'.name = "Alarm_Delete"
                        /\ op'.alarm_id = alarm_queue[i].id
                        /\ ret' = 1
                     \/ /\ op'.name = "AlarmTimer_Process"
                        /\ i = 0
                        /\ alarm_queue[0].cb = "CancelSelf_Callback"
                        /\ alarm_queue[0].remain_time = 1]_vars

\* C35 witness: a repeating head whose callback fills the queue has fired with
\* two alarms in the queue; the queue is full and the alarm is in it, with
\* remain_time = duration.
C35_Witness ==
    /\ op.name = "AlarmTimer_Process"
    /\ Len(fired) = 1
    /\ fired[1].mode = ALARM_REPEAT
    /\ fired[1].cb = "Fill_Callback"
    /\ queue_size = MAX_ALARM_NUM
    /\ nreg = MAX_ALARM_NUM
    /\ \E p \in InQueue :
           /\ alarm_queue[p].reg = fired[1].reg
           /\ alarm_queue[p].remain_time = alarm_queue[p].duration

\* C36: no accepted byte is lost: every byte the receive interrupt stores in
\* the buffer is part of what a later weather_parse call is handed, whatever
\* the interleaving of the interrupt with the main loop.  So when main()
\* resets the session (Uart3.RXlenth = 0), every byte stored so far has been
\* handed over: none has been stored since the last weather_parse call.
C36_NoAcceptedByteLost ==
    [][(pc = "rxclrlen" /\ pc' = "rxclrtime") => fresh = 0]_vars

\* The last byte has just arrived: no further one will.
LastByteIn == op.name = "USART3_IRQHandler" /\ ~BytesLeft
\* The session is IDLE.
Idle == Uart3 = [RXlenth |-> 0, Time |-> 0, ReceiveFinish |-> 0]

\* C37: reception always terminates: once a byte has arrived and no further
\* one does, with SysTick and the main loop running on, the reception is
\* completed and weather_parse is called at some later time (main() calls it
\* only when it has found ReceiveFinish set), and from some time on the
\* session is IDLE (RXlenth, Time and ReceiveFinish all 0).
C37_ReceptionTerminates ==
    /\ LastByteIn ~> (handed # <<>>)
    /\ LastByteIn ~> []Idle

\* C38: a step invokes callbacks of g_alarm_list only when it advances the
\* wall clock, and then exactly those of the entries that are enabled, have
\* a callback and whose hour:minute the clock now shows with second 0, each
\* once; no other step invokes any, and neither a disabled entry nor entry
\* 0 is ever invoked.
C38_RingsOncePerAdvanceToEntry ==
    [][LET t == g_real_time'
           due == SelectSeq(<<0, 1, 2, 3, 4>>,
                            LAMBDA i : /\ g_alarm_list[i].enable # 0
                                       /\ g_alarm_list[i].callback # NULL
                                       /\ g_alarm_list[i].hour = t.hour
                                       /\ g_alarm_list[i].minute = t.minute)
       IN  rung' = IF nadv' = nadv + 1 /\ t.second = 0 THEN due ELSE <<>>]_vars

====
